---- MODULE Spec2Model ----
(***************************************************************************)
(* dpu-sim: the VM-mode bring-up run of install_software.py / dpu-sim.py   *)
(* (SoftwareInstaller) and the address poller, as state machines.          *)
(*                                                                         *)
(*   Spec      one run of main(): connect, install_all_vms (host           *)
(*             preparation of every VM), setup_k8s_cluster, print_summary, *)
(*             sys.exit.  Every remote command's outcome is chosen by the  *)
(*             environment.                                                *)
(*   SpecPoll  the address pollers applied to every probe sequence.        *)
(***************************************************************************)
EXTENDS Integers, Sequences, FiniteSets, TLC

VARIABLES
    config,                 \* the loaded configuration document (read-only)
    entry,                  \* "install_software.py" | "dpu-sim.py"
    parallel,               \* args.parallel
    vm_arg,                 \* args.vm (None: all VMs)
    pc,                     \* position of the run
    vmIdx,                  \* install_all_vms: index of vm_name in vm_names
    step,                   \* install_on_vm: index of the next step
    results,                \* SoftwareInstaller.results
    cluster_setup_results,  \* SoftwareInstaller.cluster_setup_results
    clusterIdx,             \* setup_k8s_cluster: index in clusters_vms
    wIdx,                   \* index of worker_vm in worker_vms
    master_mgmt_ip,         \* setup_k8s_cluster local
    join_command,           \* setup_k8s_cluster local
    attempt,                \* _wait_for_ovnkube_node_and_approve_csrs local
    setupRet,               \* value returned by setup_k8s_cluster
    exitCode,               \* sys.exit status, -1 while running
    stageLog,               \* history: cluster stages executed, in order
    joinCmdLog,             \* history: join command used per worker
    unreachable,            \* history: VMs whose address/SSH wait failed
    prepFailed,             \* history: VMs whose install_on_vm failed
    stepLog,                \* history: steps of the current/last install_on_vm
    csrLog,                 \* history: events of the current/last ovnkube wait
    ovnRet,                 \* history: worker -> result of its ovnkube wait
    proceeded,              \* history: workers the join loop moved past
    faults,                 \* history: failed cluster-level operations
    pollIn,                 \* SpecPoll: inputs of the poller
    pollOut,                \* SpecPoll: what the poller did
    wait,                   \* SpecLive: the polling loop being executed
    td,                     \* SpecTeardown: the host's resources and the teardown
    ovn,                    \* SpecOvn: install_ovn_kubernetes in progress
    dep                     \* SpecNames, SpecDeploy: the deployment in progress

runVars  == <<config, entry, parallel, vm_arg, pc, vmIdx, step, results,
              cluster_setup_results, clusterIdx, wIdx, master_mgmt_ip,
              join_command, attempt, setupRet, exitCode>>
histVars == <<stageLog, joinCmdLog, unreachable, prepFailed, stepLog, csrLog,
              ovnRet, proceeded, faults>>
pollVars == <<pollIn, pollOut, wait, td, ovn, dep>>
vars     == <<runVars, histVars, pollVars>>

None == "None"

----------------------------------------------------------------------------
(* Bounds *)

\* number of probes the environment answers; stands for max_attempts
\* (30 in get_vm_ip_with_retry, 60 in wait_for_vms)
MaxAttempts == 3

\* default of max_retries in _wait_for_ovnkube_node_and_approve_csrs
DefaultMaxRetries == 3

\* the largest timeout of a time-bounded wait, in ticks of 2 seconds (the
\* time.sleep(2) of the loops); stands for timeout = 60 of wait_for_ssh and
\* timeout = 300 of wait_for_node_ready
MaxTimeout == 3

\* the longest one probe takes, in ticks (ssh_command has timeout = 10)
MaxProbeTicks == 1

----------------------------------------------------------------------------
(* Python dictionaries and sequences *)

EmptyDict == [k \in {} |-> TRUE]

Put(d, k, v) == [x \in (DOMAIN d) \cup {k} |-> IF x = k THEN v ELSE d[x]]

\* all(d.values())
AllValues(d) == \A k \in DOMAIN d : d[k]

Range(s) == {s[i] : i \in DOMAIN s}

----------------------------------------------------------------------------
(* The address poller *)

Addresses == {"192.168.120.11", "192.168.120.12"}
ProbeVals == {None} \cup Addresses

\* what libvirt answers to one get_vm_ip call: an IPv4 lease address, no lease
\* yet (None), or a libvirtError raised by lookupByName / interfaceAddresses
LibvirtError == "libvirtError"
LibvirtAnswers == ProbeVals \cup {LibvirtError}

\* try: ... return addr['addr']  except libvirt.libvirtError: print(...)
\* return None
get_vm_ip(answer) == IF answer = LibvirtError THEN None ELSE answer

\* mutant of retry_loop: sleeps after every empty probe, the last one too
RECURSIVE retry_loop_SleepAlways(_, _, _, _)
retry_loop_SleepAlways(probes, max_attempts, att, trace) ==
    IF att >= max_attempts THEN [ret |-> None, trace |-> trace]
    ELSE LET ip == get_vm_ip(probes[att + 1]) IN
         IF ip # None
         THEN [ret |-> ip, trace |-> Append(trace, "probe")]
         ELSE retry_loop_SleepAlways(probes, max_attempts, att + 1,
                                     trace \o <<"probe", "sleep">>)

\* for attempt in range(max_attempts): ip = get_vm_ip(...); if ip: return ip;
\* if attempt < max_attempts - 1: time.sleep(2)
\* return None
\* probes[i] is what libvirt answers to the i-th call of get_vm_ip; the result
\* records the returned value and the trace of probe/sleep events.
RECURSIVE retry_loop(_, _, _, _)
retry_loop(probes, max_attempts, att, trace) ==
    IF att >= max_attempts THEN [ret |-> None, trace |-> trace]
    ELSE LET ip == get_vm_ip(probes[att + 1]) IN
         IF ip # None
         THEN [ret |-> ip, trace |-> Append(trace, "probe")]
         ELSE IF att < max_attempts - 1
              THEN retry_loop(probes, max_attempts, att + 1,
                              trace \o <<"probe", "sleep">>)
              ELSE retry_loop(probes, max_attempts, att + 1,
                              Append(trace, "probe"))

get_vm_ip_with_retry(probes, max_attempts) ==
    retry_loop(probes, max_attempts, 0, <<>>)

\* the address loop of VMDeployer.wait_for_vms: ip = None; for attempt in
\* range(max_attempts): ip = get_vm_ip(...); if ip: break;
\* if attempt < max_attempts - 1: time.sleep(2); continue
RECURSIVE wait_for_vms_loop(_, _, _, _)
wait_for_vms_loop(probes, max_attempts, att, trace) ==
    IF att >= max_attempts THEN [ret |-> None, trace |-> trace]
    ELSE LET ip == get_vm_ip(probes[att + 1]) IN
         IF ip # None
         THEN [ret |-> ip, trace |-> Append(trace, "probe")]
         ELSE IF att < max_attempts - 1
              THEN wait_for_vms_loop(probes, max_attempts, att + 1,
                                     trace \o <<"probe", "sleep">>)
              ELSE wait_for_vms_loop(probes, max_attempts, att + 1,
                                     Append(trace, "probe"))

wait_for_vms_ip(probes, max_attempts) ==
    wait_for_vms_loop(probes, max_attempts, 0, <<>>)

Pollers == {"get_vm_ip_with_retry", "wait_for_vms"}

ProbeSeqs == [1..MaxAttempts -> LibvirtAnswers]

----------------------------------------------------------------------------
(* Configuration documents *)

VM(n, role, cluster, node_ip) ==
    [name |-> n, k8s_role |-> role, k8s_cluster |-> cluster,
     k8s_node_ip |-> node_ip]

Cluster(n, cni) == [name |-> n, cni |-> cni]

\* config['vms']: one control plane with two workers; two clusters; a cluster
\* without a master; a master without k8s_node_ip; a VM outside any cluster;
\* no cluster at all
Topologies == {
    << VM("m1", "master", "c1", "10.0.0.1"), VM("w1", "worker", "c1", None),
       VM("w2", "worker", "c1", None) >>,
    << VM("m1", "master", "c1", "10.0.0.1"), VM("w1", "worker", "c1", None),
       VM("m2", "master", "c2", "10.0.0.2"), VM("w2", "worker", "c2", None) >>,
    << VM("w1", "worker", "c1", None), VM("m2", "master", "c2", "10.0.0.2"),
       VM("w2", "worker", "c2", None) >>,
    << VM("m1", "master", "c1", None), VM("m2", "master", "c2", "10.0.0.2"),
       VM("w2", "worker", "c2", None) >>,
    << VM("m1", "master", "c1", "10.0.0.1"), VM("s1", None, None, None),
       VM("m2", "master", "c1", "10.0.0.2") >>,
    << VM("s1", None, None, None) >> }

\* config['kubernetes']['clusters']: the value of 'cni' (None: key absent)
CniValues == {None, "flannel", "OVN-Kubernetes", "calico"}

ClusterLists ==
    {<<>>, << Cluster("c2", "flannel") >>}
    \cup {<< Cluster("c1", x) >> : x \in CniValues}
    \cup {<< Cluster("c1", x), Cluster("c2", y) >> :
             x \in CniValues, y \in {"flannel", "ovn-kubernetes"}}

Configs == {[vms |-> t, clusters |-> cl] : t \in Topologies, cl \in ClusterLists}

VmNames == {"m1", "m2", "w1", "w2", "s1"}
ClusterNames == {"c1", "c2"}

\* the DHCP lease address of each VM
IpOf == [n \in VmNames |->
            CASE n = "m1" -> "192.168.120.11" [] n = "m2" -> "192.168.120.12"
              [] n = "w1" -> "192.168.120.21" [] n = "w2" -> "192.168.120.22"
              [] OTHER   -> "192.168.120.31"]

\* str.lower() on the CNI selectors of the configurations
Lower(str) == IF str = "OVN-Kubernetes" THEN "ovn-kubernetes" ELSE str

\* vm_names = [vm['name'] for vm in self.config['vms']]
vm_names == [i \in DOMAIN config.vms |-> config.vms[i].name]

\* get_cluster_config: the first cluster of that name, or None (NoCluster)
NoCluster == [name |-> None, cni |-> None]

RECURSIVE FirstNamed(_, _)
FirstNamed(clusters, cluster_name) ==
    IF clusters = <<>> THEN NoCluster
    ELSE IF Head(clusters).name = cluster_name THEN Head(clusters)
         ELSE FirstNamed(Tail(clusters), cluster_name)

get_cluster_config(cluster_name) == FirstNamed(config.clusters, cluster_name)

\* clusters_vms of setup_k8s_cluster: the cluster names in order of first
\* appearance among the VMs that carry both k8s_role and k8s_cluster
RECURSIVE ClusterOrder(_, _)
ClusterOrder(vms, seen) ==
    IF vms = <<>> THEN seen
    ELSE LET vm == Head(vms) IN
         IF vm.k8s_role = None \/ vm.k8s_cluster = None
            \/ vm.k8s_cluster \in Range(seen)
         THEN ClusterOrder(Tail(vms), seen)
         ELSE ClusterOrder(Tail(vms), Append(seen, vm.k8s_cluster))

clusters_vms == ClusterOrder(config.vms, <<>>)

RECURSIVE VmsOf(_, _, _)
VmsOf(vms, cluster_name, role) ==
    IF vms = <<>> THEN <<>>
    ELSE LET vm == Head(vms) IN
         IF vm.k8s_role = role /\ vm.k8s_cluster = cluster_name
         THEN <<vm>> \o VmsOf(Tail(vms), cluster_name, role)
         ELSE VmsOf(Tail(vms), cluster_name, role)

master_vms(cluster_name) == VmsOf(config.vms, cluster_name, "master")
worker_vms(cluster_name) == VmsOf(config.vms, cluster_name, "worker")

\* cluster_config.get('cni', 'flannel').lower()
cni_type(cluster_name) ==
    LET cc == get_cluster_config(cluster_name) IN
    IF cc.cni = None THEN "flannel" ELSE Lower(cc.cni)

----------------------------------------------------------------------------
(* Host preparation: install_on_vm, install_all_vms *)

\* the steps of install_on_vm, in program order
InstallSteps == << "connect", "get_vm_ip_with_retry", "wait_for_ssh",
                   "_disable_swap", "_set_hostname",
                   "_configure_kernel_modules", "_install_crio",
                   "_install_openvswitch", "_add_kubernetes_repo",
                   "_install_kubernetes", "_configure_firewall",
                   "_verify_installation" >>

\* what one remote step does: returns True, returns False, or raises
StepOutcomes == {"ok", "fail", "raise"}

\* while time.time() - start_time < timeout: success = ssh_command(...);
\* if success: return True; time.sleep(2)
\* return False.  probes are the answers of the iterations that fit in the timeout.
RECURSIVE wait_for_ssh(_)
wait_for_ssh(probes) ==
    IF probes = <<>> THEN FALSE
    ELSE IF Head(probes) THEN TRUE ELSE wait_for_ssh(Tail(probes))

SshProbeSeqs == [1..MaxAttempts -> BOOLEAN]

\* the VM install_on_vm is running on
cur_vm == IF vm_arg # None THEN vm_arg ELSE vm_names[vmIdx]

\* mutant of ExitStatus: the exit status ignores the results
ExitStatus_AlwaysZero(res) == 0

\* sys.exit(0 if all(installer.results.values()) else 1);
\* dpu-sim.py: all_success = all(installer.results.values())
ExitStatus(res) == IF AllValues(res) THEN 0 ELSE 1

\* mutant of GateOpen: cluster setup starts whatever the results are
GateOpen_Always(res) == TRUE

\* if all(self.results.values()): ... self.setup_k8s_cluster()
GateOpen(res) == AllValues(res)

\* dpu-sim.py deploy_vms: deployer.deploy(cleanup) succeeded or not
DeployVms ==
    /\ pc = "main" /\ entry = "dpu-sim.py"
    /\ \E ok \in BOOLEAN :
          IF ok THEN pc' = "connect" /\ UNCHANGED exitCode
          ELSE pc' = "exit" /\ exitCode' = 1
    /\ UNCHANGED <<config, entry, parallel, vm_arg, vmIdx, step, results,
                   cluster_setup_results, clusterIdx, wIdx, master_mgmt_ip,
                   join_command, attempt, setupRet>>
    /\ UNCHANGED <<histVars, pollVars>>

MainStart ==
    /\ pc = "main" /\ entry = "install_software.py"
    /\ pc' = "connect"
    /\ UNCHANGED <<config, entry, parallel, vm_arg, vmIdx, step, results,
                   cluster_setup_results, clusterIdx, wIdx, master_mgmt_ip,
                   join_command, attempt, setupRet, exitCode>>
    /\ UNCHANGED <<histVars, pollVars>>

\* if not installer.connect(): sys.exit(1) / return False
Connect ==
    /\ pc = "connect"
    /\ \E ok \in BOOLEAN :
          IF ~ok THEN pc' = "exit" /\ exitCode' = 1
          ELSE /\ pc' = IF vm_arg # None THEN "install_on_vm"
                        ELSE "install_all_vms"
               /\ UNCHANGED exitCode
    /\ UNCHANGED <<config, entry, parallel, vm_arg, vmIdx, step, results,
                   cluster_setup_results, clusterIdx, wIdx, master_mgmt_ip,
                   join_command, attempt, setupRet>>
    /\ UNCHANGED <<histVars, pollVars>>

\* install_all_vms, parallel: the dictionary display reads the local vm_name
\* before any assignment: UnboundLocalError leaves install_all_vms, and both
\* entry points exit 1 from their except clause
InstallAllVmsParallel ==
    /\ pc = "install_all_vms" /\ parallel
    /\ pc' = "exit" /\ exitCode' = 1
    /\ UNCHANGED <<config, entry, parallel, vm_arg, vmIdx, step, results,
                   cluster_setup_results, clusterIdx, wIdx, master_mgmt_ip,
                   join_command, attempt, setupRet>>
    /\ UNCHANGED <<histVars, pollVars>>

\* install_all_vms, sequential: for vm_name in vm_names
InstallAllVmsSequential ==
    /\ pc = "install_all_vms" /\ ~parallel
    /\ vmIdx' = 1 /\ step' = 1
    /\ pc' = IF vm_names = <<>> THEN "all_installed" ELSE "install_on_vm"
    /\ UNCHANGED <<config, entry, parallel, vm_arg, results,
                   cluster_setup_results, clusterIdx, wIdx, master_mgmt_ip,
                   join_command, attempt, setupRet, exitCode>>
    /\ UNCHANGED <<histVars, pollVars>>

\* mutant of InstallOnVmReturns: a failed VM ends the loop of install_all_vms
InstallOnVmReturns_AbortOnFailure(success) ==
    /\ IF vm_arg # None
       THEN /\ exitCode' = IF success THEN 0 ELSE 1
            /\ pc' = "exit"
            /\ UNCHANGED <<results, vmIdx>>
       ELSE /\ results' = Put(results, cur_vm, success)
            /\ vmIdx' = vmIdx + 1
            /\ pc' = IF success /\ vmIdx < Len(vm_names) THEN "install_on_vm"
                     ELSE "all_installed"
            /\ UNCHANGED exitCode
    /\ step' = 1
    /\ prepFailed' = IF success THEN prepFailed ELSE prepFailed \cup {cur_vm}

\* the caller's continuation when install_on_vm(cur_vm) has returned `success`
\* (an exception caught by install_all_vms counts as False)
InstallOnVmReturns(success) ==
    /\ IF vm_arg # None
       THEN \* main: sys.exit(0 if success else 1)
            /\ exitCode' = IF success THEN 0 ELSE 1
            /\ pc' = "exit"
            /\ UNCHANGED <<results, vmIdx>>
       ELSE \* install_all_vms: self.results[vm_name] = success
            /\ results' = Put(results, cur_vm, success)
            /\ vmIdx' = vmIdx + 1
            /\ pc' = IF vmIdx < Len(vm_names) THEN "install_on_vm"
                     ELSE "all_installed"
            /\ UNCHANGED exitCode
    /\ step' = 1
    /\ prepFailed' = IF success THEN prepFailed ELSE prepFailed \cup {cur_vm}

\* the step of install_on_vm that is executed now, with its outcome; the log
\* starts afresh with the first step of every install_on_vm
LogStep(ok) ==
    stepLog' = Append(IF step = 1 THEN <<>> ELSE stepLog,
                      [vm |-> cur_vm, step |-> InstallSteps[step], ok |-> ok])

\* mutant of InstallStepDone: a failed step does not end install_on_vm
InstallStepDone_IgnoreFailure(ok) ==
    IF step < Len(InstallSteps)
    THEN /\ step' = step + 1
         /\ UNCHANGED <<pc, vmIdx, results, exitCode, prepFailed>>
    ELSE InstallOnVmReturns(ok)

\* one step of install_on_vm returned `ok`: go on with the next step, or return
InstallStepDone(ok) ==
    IF ok /\ step < Len(InstallSteps)
    THEN /\ step' = step + 1
         /\ UNCHANGED <<pc, vmIdx, results, exitCode, prepFailed>>
    ELSE InstallOnVmReturns(ok)

\* if not self.connect(): return False
InstallConnect ==
    /\ pc = "install_on_vm" /\ InstallSteps[step] = "connect"
    /\ \E ok \in BOOLEAN : InstallStepDone(ok) /\ LogStep(ok)
    /\ UNCHANGED <<config, entry, parallel, vm_arg, cluster_setup_results,
                   clusterIdx, wIdx, master_mgmt_ip, join_command, attempt,
                   setupRet>>
    /\ UNCHANGED <<stageLog, joinCmdLog, unreachable, csrLog, ovnRet,
                   proceeded, faults, pollVars>>

\* ip = self.get_vm_ip_with_retry(vm_name); if not ip: return False
InstallGetIp ==
    /\ pc = "install_on_vm" /\ InstallSteps[step] = "get_vm_ip_with_retry"
    /\ \E probes \in [1..MaxAttempts -> {None, IpOf[cur_vm]}] :
          LET ip == get_vm_ip_with_retry(probes, MaxAttempts).ret IN
          /\ InstallStepDone(ip # None) /\ LogStep(ip # None)
          /\ unreachable' = IF ip = None THEN unreachable \cup {cur_vm}
                            ELSE unreachable
    /\ UNCHANGED <<config, entry, parallel, vm_arg, cluster_setup_results,
                   clusterIdx, wIdx, master_mgmt_ip, join_command, attempt,
                   setupRet>>
    /\ UNCHANGED <<stageLog, joinCmdLog, csrLog, ovnRet, proceeded, faults,
                   pollVars>>

\* if not self.wait_for_ssh(ip): return False
InstallWaitSsh ==
    /\ pc = "install_on_vm" /\ InstallSteps[step] = "wait_for_ssh"
    /\ \E probes \in SshProbeSeqs :
          LET ok == wait_for_ssh(probes) IN
          /\ InstallStepDone(ok) /\ LogStep(ok)
          /\ unreachable' = IF ok THEN unreachable
                            ELSE unreachable \cup {cur_vm}
    /\ UNCHANGED <<config, entry, parallel, vm_arg, cluster_setup_results,
                   clusterIdx, wIdx, master_mgmt_ip, join_command, attempt,
                   setupRet>>
    /\ UNCHANGED <<stageLog, joinCmdLog, csrLog, ovnRet, proceeded, faults,
                   pollVars>>

\* if not self._disable_swap(ip): return False ... _verify_installation(ip)
InstallStep ==
    /\ pc = "install_on_vm"
    /\ InstallSteps[step] \notin {"connect", "get_vm_ip_with_retry",
                                  "wait_for_ssh"}
    /\ \E out \in StepOutcomes :
          /\ IF out = "raise" THEN InstallOnVmReturns(FALSE)
             ELSE InstallStepDone(out = "ok")
          /\ LogStep(out = "ok")
    /\ UNCHANGED <<config, entry, parallel, vm_arg, cluster_setup_results,
                   clusterIdx, wIdx, master_mgmt_ip, join_command, attempt,
                   setupRet>>
    /\ UNCHANGED <<stageLog, joinCmdLog, unreachable, csrLog, ovnRet,
                   proceeded, faults, pollVars>>

\* install_all_vms after the loop: setup_k8s_cluster only when every recorded
\* result is True, else every configured cluster is recorded False
AllInstalled ==
    /\ pc = "all_installed"
    /\ IF GateOpen(results)
       THEN pc' = "setup_k8s_cluster" /\ UNCHANGED cluster_setup_results
       ELSE /\ pc' = "print_summary"
            /\ cluster_setup_results' =
                  [c \in DOMAIN cluster_setup_results
                         \cup {config.clusters[i].name :
                                  i \in DOMAIN config.clusters} |-> FALSE]
    /\ UNCHANGED <<config, entry, parallel, vm_arg, vmIdx, step, results,
                   clusterIdx, wIdx, master_mgmt_ip, join_command, attempt,
                   setupRet, exitCode>>
    /\ UNCHANGED <<histVars, pollVars>>

----------------------------------------------------------------------------
(* Cluster bring-up: setup_k8s_cluster *)

cur_cluster == clusters_vms[clusterIdx]
\* mutant of master_vm: the last master of the cluster
master_vm_Last == master_vms(cur_cluster)[Len(master_vms(cur_cluster))]
master_vm   == master_vms(cur_cluster)[1]
cur_worker  == worker_vms(cur_cluster)[wIdx]

Log(stage, node, ok) ==
    Append(stageLog, [cluster |-> cur_cluster, stage |-> stage,
                      node |-> node, ok |-> ok])

\* a CNI stage: whether its manifests were applied, whether its pods were
\* seen ready by the poll, and what the install function returned
LogCni(stage, node, applied, ready, ok) ==
    Append(stageLog, [cluster |-> cur_cluster, stage |-> stage,
                      node |-> node, ok |-> ok, applied |-> applied,
                      ready |-> applied /\ ready])

\* self.cluster_setup_results[cluster_name] = False; return False
FailCluster(kind, node) ==
    /\ cluster_setup_results' = Put(cluster_setup_results, cur_cluster, FALSE)
    /\ setupRet' = "False"
    /\ pc' = "print_summary"
    /\ faults' = faults \cup {<<kind, cur_cluster, node>>}

\* return False (join loop: nothing is recorded for the cluster)
ReturnFalse(kind, node) ==
    /\ setupRet' = "False"
    /\ pc' = "print_summary"
    /\ faults' = faults \cup {<<kind, cur_cluster, node>>}
    /\ UNCHANGED cluster_setup_results

\* grouping of the VMs; if not clusters_vms: return True
SetupK8sCluster ==
    /\ pc = "setup_k8s_cluster"
    /\ IF clusters_vms = <<>>
       THEN pc' = "print_summary" /\ setupRet' = "True"
       ELSE pc' = "cluster" /\ UNCHANGED setupRet
    /\ clusterIdx' = 1
    /\ UNCHANGED <<config, entry, parallel, vm_arg, vmIdx, step, results,
                   cluster_setup_results, wIdx, master_mgmt_ip, join_command,
                   attempt, exitCode>>
    /\ UNCHANGED <<histVars, pollVars>>

\* for cluster_name, vms in clusters_vms.items(): cluster_config lookup and the
\* check that the cluster has a master
ClusterBegin ==
    /\ pc = "cluster"
    /\ IF get_cluster_config(cur_cluster) = NoCluster
       THEN FailCluster("config", None)
       ELSE IF master_vms(cur_cluster) = <<>>
            THEN FailCluster("no_master", None)
            ELSE /\ pc' = "master_ip"
                 /\ UNCHANGED <<cluster_setup_results, setupRet, faults>>
    /\ UNCHANGED <<config, entry, parallel, vm_arg, vmIdx, step, results,
                   clusterIdx, wIdx, master_mgmt_ip, join_command, attempt,
                   exitCode>>
    /\ UNCHANGED <<stageLog, joinCmdLog, unreachable, prepFailed, stepLog, csrLog,
                   ovnRet, proceeded, pollVars>>

\* mutant of FirstStage: no br-ex setup before the control-plane init
FirstStage_SkipBrex(cni) == "init"

\* the stage that follows the address lookups of the master
FirstStage(cni) == IF cni = "ovn-kubernetes" THEN "brex_master" ELSE "init"

\* master_mgmt_ip = self.get_vm_ip_with_retry(master_name);
\* master_k8s_ip = master_vm.get('k8s_node_ip'); cni_type
MasterIp ==
    /\ pc = "master_ip"
    /\ \E probes \in [1..MaxAttempts -> {None, IpOf[master_vm.name]}] :
          LET ip == get_vm_ip_with_retry(probes, MaxAttempts).ret IN
          IF ip = None
          THEN FailCluster("master_ip", master_vm.name)
               /\ UNCHANGED master_mgmt_ip
          ELSE IF master_vm.k8s_node_ip = None
               THEN FailCluster("k8s_node_ip", master_vm.name)
                    /\ master_mgmt_ip' = ip
               ELSE /\ master_mgmt_ip' = ip
                    /\ pc' = FirstStage(cni_type(cur_cluster))
                    /\ UNCHANGED <<cluster_setup_results, setupRet, faults>>
    /\ UNCHANGED <<config, entry, parallel, vm_arg, vmIdx, step, results,
                   clusterIdx, wIdx, join_command, attempt, exitCode>>
    /\ UNCHANGED <<stageLog, joinCmdLog, unreachable, prepFailed, stepLog, csrLog,
                   ovnRet, proceeded, pollVars>>

\* if not self._setup_ovn_brex(master_mgmt_ip, master_name): ... return False
BrexMaster ==
    /\ pc = "brex_master"
    /\ \E ok \in BOOLEAN :
          /\ stageLog' = Log("brex", master_vm.name, ok)
          /\ IF ~ok THEN FailCluster("brex", master_vm.name)
             ELSE /\ pc' = IF worker_vms(cur_cluster) = <<>> THEN "init"
                           ELSE "brex_worker"
                  /\ UNCHANGED <<cluster_setup_results, setupRet, faults>>
    /\ wIdx' = 1
    /\ UNCHANGED <<config, entry, parallel, vm_arg, vmIdx, step, results,
                   clusterIdx, master_mgmt_ip, join_command, attempt,
                   exitCode>>
    /\ UNCHANGED <<joinCmdLog, unreachable, prepFailed, stepLog, csrLog, ovnRet,
                   proceeded, pollVars>>

\* for worker_vm in worker_vms: worker_ip lookup, then _setup_ovn_brex
BrexWorker ==
    /\ pc = "brex_worker"
    /\ \E probes \in [1..MaxAttempts -> {None, IpOf[cur_worker.name]}],
          ok \in BOOLEAN :
          LET ip == get_vm_ip_with_retry(probes, MaxAttempts).ret IN
          IF ip = None
          THEN FailCluster("brex_ip", cur_worker.name)
               /\ UNCHANGED <<stageLog, wIdx>>
          ELSE /\ stageLog' = Log("brex", cur_worker.name, ok)
               /\ IF ~ok
                  THEN FailCluster("brex", cur_worker.name) /\ UNCHANGED wIdx
                  ELSE /\ IF wIdx < Len(worker_vms(cur_cluster))
                          THEN wIdx' = wIdx + 1 /\ UNCHANGED pc
                          ELSE pc' = "init" /\ UNCHANGED wIdx
                       /\ UNCHANGED <<cluster_setup_results, setupRet, faults>>
    /\ UNCHANGED <<config, entry, parallel, vm_arg, vmIdx, step, results,
                   clusterIdx, master_mgmt_ip, join_command, attempt,
                   exitCode>>
    /\ UNCHANGED <<joinCmdLog, unreachable, prepFailed, stepLog, csrLog, ovnRet,
                   proceeded, pollVars>>

\* _initialize_k8s_master: kubeadm init, kubectl setup, token create; each
\* failure returns (False, None); "if not success or not join_command"
InitOutcomes == {"ok", "init_failed", "kubectl_failed", "token_failed",
                 "token_empty"}

JoinCommandOf == [c \in ClusterNames |->
                     IF c = "c1" THEN "kubeadm join c1" ELSE "kubeadm join c2"]

\* mutant of _initialize_k8s_master: every cluster hands out the same command
_initialize_k8s_master_SharedToken(out, cluster_name) ==
    IF out = "ok" THEN <<TRUE, JoinCommandOf["c1"]>>
    ELSE <<FALSE, None>>

_initialize_k8s_master(out, cluster_name) ==
    IF out = "ok" THEN <<TRUE, JoinCommandOf[cluster_name]>>
    ELSE <<FALSE, None>>

\* mutant of AfterInit: the result of the init is not checked
AfterInit_IgnoreFailure(success) == "cni"

\* the stage that follows _initialize_k8s_master
AfterInit(success) == IF success THEN "cni" ELSE "failed"

\* success, join_command = self._initialize_k8s_master(...)
InitializeMaster ==
    /\ pc = "init"
    /\ \E out \in InitOutcomes :
          LET r == _initialize_k8s_master(out, cur_cluster) IN
          /\ stageLog' = Log("init", master_vm.name, r[1])
          /\ join_command' = r[2]
          /\ IF AfterInit(r[1]) = "failed"
             THEN FailCluster("init", master_vm.name)
             ELSE /\ pc' = AfterInit(r[1])
                  /\ UNCHANGED <<cluster_setup_results, setupRet, faults>>
    /\ UNCHANGED <<config, entry, parallel, vm_arg, vmIdx, step, results,
                   clusterIdx, wIdx, master_mgmt_ip, attempt, exitCode>>
    /\ UNCHANGED <<joinCmdLog, unreachable, prepFailed, stepLog, csrLog, ovnRet,
                   proceeded, pollVars>>

\* _install_ovn_kubernetes / _install_flannel / _install_multus: False when the
\* manifests could not be applied; the readiness poll that follows only logs
_install_ovn_kubernetes(applied, ready) ==
    IF ~applied THEN FALSE ELSE IF ready THEN TRUE ELSE TRUE

\* mutant of _install_flannel: pods that are not ready fail the install
_install_flannel_StrictReady(applied, ready) ==
    IF ~applied THEN FALSE ELSE IF ready THEN TRUE ELSE FALSE

_install_flannel(applied, ready) ==
    IF ~applied THEN FALSE ELSE IF ready THEN TRUE ELSE TRUE

_install_multus(applied, ready) ==
    IF ~applied THEN FALSE ELSE TRUE

\* if worker_vms and join_command: join loop; then the status query
AfterCni(workers, join_cmd) ==
    IF workers # <<>> /\ join_cmd # None THEN "join" ELSE "status"

\* if cni_type == 'ovn-kubernetes': _install_ovn_kubernetes(...)
InstallOvnKubernetes ==
    /\ pc = "cni" /\ cni_type(cur_cluster) = "ovn-kubernetes"
    /\ \E applied \in BOOLEAN, ready \in BOOLEAN :
          LET ok == _install_ovn_kubernetes(applied, ready) IN
          /\ stageLog' = LogCni("ovn-kubernetes", master_vm.name, applied,
                                   ready, ok)
          /\ IF ~ok THEN FailCluster("cni", master_vm.name)
             ELSE /\ pc' = AfterCni(worker_vms(cur_cluster), join_command)
                  /\ UNCHANGED <<cluster_setup_results, setupRet, faults>>
    /\ wIdx' = 1
    /\ UNCHANGED <<config, entry, parallel, vm_arg, vmIdx, step, results,
                   clusterIdx, master_mgmt_ip, join_command, attempt,
                   exitCode>>
    /\ UNCHANGED <<joinCmdLog, unreachable, prepFailed, stepLog, csrLog, ovnRet,
                   proceeded, pollVars>>

\* mutant of AfterFlannel: Multus is installed whatever _install_flannel returned
AfterFlannel_AlwaysMultus(ok) == "multus"

\* if not self._install_flannel(...): record False, return False; else Multus
AfterFlannel(ok) == IF ok THEN "multus" ELSE "failed"

\* elif cni_type == 'flannel': _install_flannel(...)
InstallFlannel ==
    /\ pc = "cni" /\ cni_type(cur_cluster) = "flannel"
    /\ \E applied \in BOOLEAN, ready \in BOOLEAN :
          LET ok == _install_flannel(applied, ready) IN
          /\ stageLog' = LogCni("flannel", master_vm.name, applied, ready, ok)
          /\ IF AfterFlannel(ok) = "failed"
             THEN FailCluster("cni", master_vm.name)
             ELSE /\ pc' = AfterFlannel(ok)
                  /\ UNCHANGED <<cluster_setup_results, setupRet, faults>>
    /\ UNCHANGED <<config, entry, parallel, vm_arg, vmIdx, step, results,
                   clusterIdx, wIdx, master_mgmt_ip, join_command, attempt,
                   exitCode>>
    /\ UNCHANGED <<joinCmdLog, unreachable, prepFailed, stepLog, csrLog, ovnRet,
                   proceeded, pollVars>>

\* Multus on top of Flannel
InstallMultus ==
    /\ pc = "multus"
    /\ \E applied \in BOOLEAN, ready \in BOOLEAN :
          LET ok == _install_multus(applied, ready) IN
          /\ stageLog' = LogCni("multus", master_vm.name, applied, ready, ok)
          /\ IF ~ok THEN FailCluster("cni", master_vm.name)
             ELSE /\ pc' = AfterCni(worker_vms(cur_cluster), join_command)
                  /\ UNCHANGED <<cluster_setup_results, setupRet, faults>>
    /\ wIdx' = 1
    /\ UNCHANGED <<config, entry, parallel, vm_arg, vmIdx, step, results,
                   clusterIdx, master_mgmt_ip, join_command, attempt,
                   exitCode>>
    /\ UNCHANGED <<joinCmdLog, unreachable, prepFailed, stepLog, csrLog, ovnRet,
                   proceeded, pollVars>>

\* else: unknown CNI type
UnknownCni ==
    /\ pc = "cni"
    /\ cni_type(cur_cluster) \notin {"ovn-kubernetes", "flannel"}
    /\ FailCluster("unknown_cni", None)
    /\ UNCHANGED <<config, entry, parallel, vm_arg, vmIdx, step, results,
                   clusterIdx, wIdx, master_mgmt_ip, join_command, attempt,
                   exitCode>>
    /\ UNCHANGED <<stageLog, joinCmdLog, unreachable, prepFailed, stepLog, csrLog,
                   ovnRet, proceeded, pollVars>>

\* the join loop moves past the current worker: next worker, or the status
NextWorker ==
    /\ proceeded' = proceeded \cup {cur_worker.name}
    /\ IF wIdx < Len(worker_vms(cur_cluster))
       THEN wIdx' = wIdx + 1 /\ pc' = "join"
       ELSE pc' = "status" /\ UNCHANGED wIdx

\* for worker_vm in worker_vms: worker_ip lookup, _join_k8s_worker, then the
\* ovnkube-node wait (OVN-Kubernetes) or sleep and _approve_pending_csrs
JoinWorker ==
    /\ pc = "join"
    /\ \E probes \in [1..MaxAttempts -> {None, IpOf[cur_worker.name]}],
          ok \in BOOLEAN :
          LET ip == get_vm_ip_with_retry(probes, MaxAttempts).ret IN
          IF ip = None
          THEN /\ ReturnFalse("join_ip", cur_worker.name)
               /\ UNCHANGED <<stageLog, joinCmdLog, wIdx, attempt, csrLog,
                              proceeded>>
          ELSE /\ stageLog' = Log("join", cur_worker.name, ok)
               /\ joinCmdLog' = Append(joinCmdLog,
                                       [worker |-> cur_worker.name,
                                        cmd |-> join_command])
               /\ IF ~ok
                  THEN /\ ReturnFalse("join", cur_worker.name)
                       /\ UNCHANGED <<wIdx, attempt, csrLog, proceeded>>
                  ELSE /\ IF cni_type(cur_cluster) = "ovn-kubernetes"
                          THEN /\ pc' = "ovn_wait_pod"
                               /\ attempt' = 1
                               /\ csrLog' = <<>>
                               /\ UNCHANGED <<wIdx, proceeded>>
                          ELSE /\ NextWorker
                               /\ UNCHANGED <<attempt, csrLog>>
                       /\ UNCHANGED <<cluster_setup_results, setupRet, faults>>
    /\ UNCHANGED <<config, entry, parallel, vm_arg, vmIdx, step, results,
                   clusterIdx, master_mgmt_ip, join_command, exitCode>>
    /\ UNCHANGED <<unreachable, prepFailed, stepLog, ovnRet, pollVars>>

----------------------------------------------------------------------------
(* _wait_for_ovnkube_node_and_approve_csrs *)

Event(ev, ok) ==
    [worker |-> cur_worker.name, cycle |-> attempt, ev |-> ev, ok |-> ok]

\* mutant of MoreCycles: one cycle too many
MoreCycles_OffByOne(att, max_retries) == att <= max_retries

\* for attempt in range(1, max_retries + 1): is there a cycle after `att`
MoreCycles(att, max_retries) == att < max_retries

\* mutant of AfterOvnWait: a False result of the wait ends setup_k8s_cluster
AfterOvnWait_Checked(ret) == IF ret THEN "next_worker" ELSE "return_false"

\* what setup_k8s_cluster does with the value the wait returned: nothing
AfterOvnWait(ret) == "next_worker"

\* the wait returns `ret` to the join loop
OvnWaitReturns(ret) ==
    /\ ovnRet' = Put(ovnRet, cur_worker.name, ret)
    /\ IF AfterOvnWait(ret) = "next_worker"
       THEN NextWorker /\ UNCHANGED <<cluster_setup_results, setupRet, faults>>
       ELSE /\ ReturnFalse("ovn_wait", cur_worker.name)
            /\ UNCHANGED <<wIdx, proceeded>>
    /\ UNCHANGED attempt

\* the end of an unsuccessful cycle: the next cycle, or return False
OvnCycleFailed ==
    IF MoreCycles(attempt, DefaultMaxRetries)
    THEN /\ attempt' = attempt + 1
         /\ pc' = "ovn_wait_pod"
         /\ UNCHANGED <<ovnRet, wIdx, proceeded, cluster_setup_results,
                        setupRet, faults>>
    ELSE OvnWaitReturns(FALSE)

\* wait for the pod to be scheduled; not found: continue; found: approve CSRs
OvnWaitPod ==
    /\ pc = "ovn_wait_pod"
    /\ \E found \in BOOLEAN :
          IF ~found
          THEN /\ csrLog' = Append(csrLog, Event("wait_pod", FALSE))
               /\ OvnCycleFailed
          ELSE /\ csrLog' = csrLog \o << Event("wait_pod", TRUE),
                                         Event("approve", TRUE) >>
               /\ pc' = "ovn_wait_ready"
               /\ UNCHANGED <<attempt, ovnRet, wIdx, proceeded,
                              cluster_setup_results, setupRet, faults>>
    /\ UNCHANGED <<config, entry, parallel, vm_arg, vmIdx, step, results,
                   clusterIdx, master_mgmt_ip, join_command, exitCode>>
    /\ UNCHANGED <<stageLog, joinCmdLog, unreachable, prepFailed, stepLog, pollVars>>

\* wait for all containers ready: return True, else approve again and retry
OvnWaitReady ==
    /\ pc = "ovn_wait_ready"
    /\ \E ready \in BOOLEAN :
          IF ready
          THEN /\ csrLog' = Append(csrLog, Event("wait_ready", TRUE))
               /\ OvnWaitReturns(TRUE)
          ELSE /\ csrLog' = csrLog \o << Event("wait_ready", FALSE),
                                         Event("approve", TRUE) >>
               /\ OvnCycleFailed
    /\ UNCHANGED <<config, entry, parallel, vm_arg, vmIdx, step, results,
                   clusterIdx, master_mgmt_ip, join_command, exitCode>>
    /\ UNCHANGED <<stageLog, joinCmdLog, unreachable, prepFailed, stepLog, pollVars>>

----------------------------------------------------------------------------
(* Status, summary, exit *)

\* mutant of ClusterStatus: a failed status query fails the cluster
ClusterStatus_Checked ==
    /\ pc = "status"
    /\ \E ok \in BOOLEAN :
          /\ stageLog' = Log("status", master_vm.name, ok)
          /\ IF ~ok
             THEN FailCluster("status", master_vm.name)
                  /\ UNCHANGED clusterIdx
             ELSE /\ cluster_setup_results' =
                         Put(cluster_setup_results, cur_cluster, TRUE)
                  /\ IF clusterIdx < Len(clusters_vms)
                     THEN clusterIdx' = clusterIdx + 1 /\ pc' = "cluster"
                          /\ UNCHANGED setupRet
                     ELSE pc' = "print_summary" /\ setupRet' = "True"
                          /\ UNCHANGED clusterIdx
                  /\ UNCHANGED faults
    /\ UNCHANGED <<config, entry, parallel, vm_arg, vmIdx, step, results, wIdx,
                   master_mgmt_ip, join_command, attempt, exitCode>>
    /\ UNCHANGED <<joinCmdLog, unreachable, prepFailed, stepLog, csrLog, ovnRet,
                   proceeded, pollVars>>

\* kubectl get nodes; self.cluster_setup_results[cluster_name] = True
ClusterStatus ==
    /\ pc = "status"
    /\ \E ok \in BOOLEAN : stageLog' = Log("status", master_vm.name, ok)
    /\ cluster_setup_results' = Put(cluster_setup_results, cur_cluster, TRUE)
    /\ IF clusterIdx < Len(clusters_vms)
       THEN clusterIdx' = clusterIdx + 1 /\ pc' = "cluster"
            /\ UNCHANGED setupRet
       ELSE pc' = "print_summary" /\ setupRet' = "True"
            /\ UNCHANGED clusterIdx
    /\ UNCHANGED <<config, entry, parallel, vm_arg, vmIdx, step, results, wIdx,
                   master_mgmt_ip, join_command, attempt, exitCode>>
    /\ UNCHANGED <<joinCmdLog, unreachable, prepFailed, stepLog, csrLog, ovnRet,
                   proceeded, faults, pollVars>>

\* print_summary: all_success is False when a VM result or a recorded cluster
\* result is False
all_success(res, cluster_res) == AllValues(res) /\ AllValues(cluster_res)

\* the closing lines of print_summary
print_summary(res, cluster_res) ==
    IF all_success(res, cluster_res)
    THEN {"All VMs have been configured successfully!"}
         \cup (IF cluster_res # EmptyDict
               THEN {"All Kubernetes clusters have been set up successfully!"}
               ELSE {})
    ELSE {"Some VMs or clusters failed"}

\* print_summary, then sys.exit
PrintSummary ==
    /\ pc = "print_summary"
    /\ pc' = "exit"
    /\ exitCode' = ExitStatus(results)
    /\ UNCHANGED <<config, entry, parallel, vm_arg, vmIdx, step, results,
                   cluster_setup_results, clusterIdx, wIdx, master_mgmt_ip,
                   join_command, attempt, setupRet>>
    /\ UNCHANGED <<histVars, pollVars>>

----------------------------------------------------------------------------
(* Specifications *)

NoPoll == [poller |-> None, probes |-> <<>>, max_attempts |-> 0]
NoPollOut == [done |-> FALSE, ret |-> None, trace |-> <<>>]

InitHist ==
    /\ stageLog = <<>> /\ joinCmdLog = <<>> /\ unreachable = {}
    /\ prepFailed = {} /\ stepLog = <<>> /\ csrLog = <<>> /\ ovnRet = EmptyDict
    /\ proceeded = {} /\ faults = {}

InitLocals ==
    /\ vmIdx = 1 /\ step = 1 /\ results = EmptyDict
    /\ cluster_setup_results = EmptyDict /\ clusterIdx = 1 /\ wIdx = 1
    /\ master_mgmt_ip = None /\ join_command = None /\ attempt = 0
    /\ setupRet = "unset" /\ exitCode = -1

NoWait == [loop |-> None, phase |-> None, i |-> 0, clock |-> 0, limit |-> 0,
           flip |-> FALSE, done |-> FALSE, ret |-> None]

NoTd == [mode |-> None]

NoOvn == [phase |-> None]

NoDep == [mode |-> None]

Init ==
    /\ config \in Configs
    /\ entry \in {"install_software.py", "dpu-sim.py"}
    /\ parallel \in BOOLEAN
    /\ vm_arg \in {None} \cup
          (IF entry = "install_software.py" /\ ~parallel
           THEN {config.vms[i].name : i \in DOMAIN config.vms} ELSE {})
    /\ pc = "main"
    /\ InitLocals /\ InitHist
    /\ pollIn = NoPoll /\ pollOut = NoPollOut /\ wait = NoWait /\ td = NoTd /\ ovn = NoOvn
    /\ dep = NoDep

Next ==
    \/ DeployVms \/ MainStart \/ Connect
    \/ InstallAllVmsParallel \/ InstallAllVmsSequential
    \/ InstallConnect \/ InstallGetIp \/ InstallWaitSsh \/ InstallStep
    \/ AllInstalled
    \/ SetupK8sCluster \/ ClusterBegin \/ MasterIp
    \/ BrexMaster \/ BrexWorker \/ InitializeMaster
    \/ InstallOvnKubernetes \/ InstallFlannel \/ InstallMultus \/ UnknownCni
    \/ JoinWorker \/ OvnWaitPod \/ OvnWaitReady
    \/ ClusterStatus \/ PrintSummary

Spec == Init /\ [][Next]_vars

\* the pollers, applied to every probe sequence and every max_attempts
InitPoll ==
    /\ config = [vms |-> <<>>, clusters |-> <<>>]
    /\ entry = None /\ parallel = FALSE /\ vm_arg = None
    /\ pc = "poll"
    /\ InitLocals /\ InitHist
    /\ pollIn \in [poller : Pollers, probes : ProbeSeqs,
                   max_attempts : 0..MaxAttempts]
    /\ pollOut = NoPollOut /\ wait = NoWait /\ td = NoTd /\ ovn = NoOvn
    /\ dep = NoDep

Poll ==
    /\ pc = "poll"
    /\ pc' = "polled"
    /\ LET r == IF pollIn.poller = "get_vm_ip_with_retry"
                THEN get_vm_ip_with_retry(pollIn.probes, pollIn.max_attempts)
                ELSE wait_for_vms_ip(pollIn.probes, pollIn.max_attempts)
       IN pollOut' = [done |-> TRUE, ret |-> r.ret, trace |-> r.trace]
    /\ UNCHANGED <<config, entry, parallel, vm_arg, vmIdx, step, results,
                   cluster_setup_results, clusterIdx, wIdx, master_mgmt_ip,
                   join_command, attempt, setupRet, exitCode>>
    /\ UNCHANGED <<histVars, pollIn, wait, td, ovn, dep>>

NextPoll == Poll

SpecPoll == InitPoll /\ [][NextPoll]_vars

----------------------------------------------------------------------------
(* The blocking waits, one loop iteration per step *)

\* a loop about to start: `limit` is max_attempts of a counting loop and the
\* timeout (in ticks) of a timed loop; start_time is tick 0
WaitStart(loop, phase, limit) ==
    [loop |-> loop, phase |-> phase, i |-> 0, clock |-> 0, limit |-> limit,
     flip |-> FALSE, done |-> FALSE, ret |-> None]

WaitLoop(loop, phase) ==
    pc = "wait" /\ wait.loop = loop /\ wait.phase = phase /\ ~wait.done

\* the loop returns
WaitDone(ret) == wait' = [wait EXCEPT !.done = TRUE, !.ret = ret]

\* the loop goes round once more (flip: parity of the iterations made)
WaitAgain(i, clock) ==
    wait' = [wait EXCEPT !.i = i, !.clock = clock, !.flip = ~wait.flip]

\* mutant of AfterSleep: the clock stands still
AfterSleep_NoAdvance(clock, d) == clock

\* the clock after a failed probe that took d ticks and the time.sleep(2)
AfterSleep(clock, d) == clock + d + 1

\* what kubectl get nodes -o json answers in wait_for_node_ready
NodeAnswers == {"error", "no_nodes", "not_ready", "bad_json", "ready"}

\* get_vm_ip_with_retry, one iteration of `for attempt in range(max_attempts)`
WaitGetVmIp ==
    /\ WaitLoop("get_vm_ip_with_retry", "loop")
    /\ IF wait.i >= wait.limit THEN WaitDone(None)
       ELSE \E answer \in LibvirtAnswers :
               LET ip == get_vm_ip(answer) IN
               IF ip # None THEN WaitDone(ip)
               ELSE WaitAgain(wait.i + 1,
                              IF wait.i < wait.limit - 1 THEN wait.clock + 1
                              ELSE wait.clock)
    /\ UNCHANGED <<runVars, histVars, pollIn, pollOut, td, ovn, dep>>

\* wait_for_vms, the address loop: `for attempt in range(max_attempts)`, then
\* `if ip:` the SSH loop, else a warning
WaitForVmsIp ==
    /\ WaitLoop("wait_for_vms", "ip")
    /\ IF wait.i >= wait.limit THEN WaitDone(None)
       ELSE \E answer \in LibvirtAnswers :
               LET ip == get_vm_ip(answer) IN
               IF ip # None
               THEN wait' = [wait EXCEPT !.phase = "ssh", !.i = 0]
               ELSE WaitAgain(wait.i + 1,
                              IF wait.i < wait.limit - 1 THEN wait.clock + 1
                              ELSE wait.clock)
    /\ UNCHANGED <<runVars, histVars, pollIn, pollOut, td, ovn, dep>>

\* wait_for_vms, the SSH loop: `for ssh_attempt in range(ssh_max_attempts)`
WaitForVmsSsh ==
    /\ WaitLoop("wait_for_vms", "ssh")
    /\ IF wait.i >= wait.limit THEN WaitDone("False")
       ELSE \E success \in BOOLEAN :
               IF success THEN WaitDone("True")
               ELSE WaitAgain(wait.i + 1,
                              IF wait.i < wait.limit - 1 THEN wait.clock + 1
                              ELSE wait.clock)
    /\ UNCHANGED <<runVars, histVars, pollIn, pollOut, td, ovn, dep>>

\* wait_for_ssh: while time.time() - start_time < timeout: ssh_command;
\* if success: return True; time.sleep(2)
\* return False
WaitForSsh ==
    /\ WaitLoop("wait_for_ssh", "loop")
    /\ IF wait.clock < wait.limit
       THEN \E success \in BOOLEAN, d \in 0..MaxProbeTicks :
               IF success THEN WaitDone("True")
               ELSE WaitAgain(0, AfterSleep(wait.clock, d))
       ELSE WaitDone("False")
    /\ UNCHANGED <<runVars, histVars, pollIn, pollOut, td, ovn, dep>>

\* wait_for_node_ready: no kubeconfig: return False; while time.time() -
\* start_time < timeout: kubectl get nodes; all Ready: return True; every other
\* answer ends in time.sleep(2)
\* return False
WaitForNodeReady ==
    /\ \/ /\ WaitLoop("wait_for_node_ready", "no_kubeconfig")
          /\ WaitDone("False")
       \/ /\ WaitLoop("wait_for_node_ready", "loop")
          /\ IF wait.clock < wait.limit
             THEN \E answer \in NodeAnswers, d \in 0..MaxProbeTicks :
                     IF answer = "ready" THEN WaitDone("True")
                     ELSE WaitAgain(0, AfterSleep(wait.clock, d))
             ELSE WaitDone("False")
    /\ UNCHANGED <<runVars, histVars, pollIn, pollOut, td, ovn, dep>>

WaitInits ==
    {WaitStart("get_vm_ip_with_retry", "loop", n) : n \in 0..MaxAttempts}
    \cup {WaitStart("wait_for_vms", "ip", MaxAttempts)}
    \cup {WaitStart("wait_for_ssh", "loop", n) : n \in 0..MaxTimeout}
    \cup {WaitStart("wait_for_node_ready", ph, n) :
              ph \in {"no_kubeconfig", "loop"}, n \in 0..MaxTimeout}

InitWait ==
    /\ config = [vms |-> <<>>, clusters |-> <<>>]
    /\ entry = None /\ parallel = FALSE /\ vm_arg = None
    /\ pc = "wait"
    /\ InitLocals /\ InitHist
    /\ pollIn = NoPoll /\ pollOut = NoPollOut /\ td = NoTd /\ ovn = NoOvn
    /\ dep = NoDep
    /\ wait \in WaitInits

NextWait ==
    \/ WaitGetVmIp \/ WaitForVmsIp \/ WaitForVmsSsh
    \/ WaitForSsh \/ WaitForNodeReady

\* a bring-up run, or one of the blocking waits; every step that can be taken
\* eventually is (each probe and each remote command returns)
InitLive == Init \/ InitWait

NextLive == Next \/ NextWait

SpecLive == InitLive /\ [][NextLive]_vars /\ WF_vars(NextLive)

----------------------------------------------------------------------------
(* Derived names: bridge_utils.py, get_host_dpu_pairs *)

\* an entry of config['vms'] as the deployer reads it (None: key absent)
Node(n, type, host) == [name |-> n, type |-> type, host |-> host]

\* the node names of the deployed topologies
DeployNames == {"host1", "dpu1", "dpu2"}

\* node names are built from these parts, joined by "-"
NameParts == {"node", "1"}

\* the most parts in a node name
MaxNameParts == 2

RECURSIVE NamesOf(_)
NamesOf(n) ==
    IF n <= 1 THEN NameParts
    ELSE NamesOf(n - 1)
         \cup {x \o "-" \o part : x \in NamesOf(n - 1), part \in NameParts}

NodeNames == NamesOf(MaxNameParts)

\* hosts = {vm['name']: vm ... if vm.get('type') == 'host'}
HostsOf(vms) == {vms[i].name : i \in {j \in DOMAIN vms : vms[j].type = "host"}}

\* get_host_dpu_pairs: for every VM of type dpu, in declaration order, whose
\* 'host' names a VM of type host: the pair (host, dpu), here by name
RECURSIVE PairsFrom(_, _)
PairsFrom(vms, hosts) ==
    IF vms = <<>> THEN <<>>
    ELSE LET vm == Head(vms) IN
         IF vm.type = "dpu" /\ vm.host # None /\ vm.host \in hosts
         THEN << <<vm.host, vm.name>> >> \o PairsFrom(Tail(vms), hosts)
         ELSE PairsFrom(Tail(vms), hosts)

get_host_dpu_pairs(vms) == PairsFrom(vms, HostsOf(vms))

RECURSIVE Enumerate(_)
Enumerate(S) ==
    IF S = {} THEN <<>>
    ELSE LET x == CHOOSE y \in S : TRUE IN <<x>> \o Enumerate(S \ {x})

\* the node names of the model, numbered
NameOrder == Enumerate(NodeNames \cup DeployNames)

NameNumber == [n \in NodeNames \cup DeployNames |->
                  CHOOSE i \in DOMAIN NameOrder : NameOrder[i] = n]

\* a number for every string "x-y" made of two node names: the least code of
\* a way to split it, so that it depends on the string alone and differs on
\* different strings
StringNumber(str) ==
    LET codes == {NameNumber[h] * 32 + NameNumber[d] :
                     <<h, d>> \in {pr \in (NodeNames \cup DeployNames)
                                            \X (NodeNames \cup DeployNames) :
                                      pr[1] \o "-" \o pr[2] = str}}
    IN CHOOSE m \in codes : \A k \in codes : m <= k

HexDigits == << "0", "1", "2", "3", "4", "5", "6", "7",
                "8", "9", "a", "b", "c", "d", "e", "f" >>

\* hashlib.sha256(combined.encode()).hexdigest(): 64 hexadecimal digits that
\* depend on the string alone.  Which digits is outside the model: the digest
\* is one whose first 8 digits differ on different strings (no collision of
\* the prefix), the other digits do not matter.
sha256_hexdigest(str) ==
    LET n == StringNumber(str) IN
    [k \in 1..64 |->
        IF k = 6 THEN HexDigits[((n \div 256) % 16) + 1]
        ELSE IF k = 7 THEN HexDigits[((n \div 16) % 16) + 1]
        ELSE IF k = 8 THEN HexDigits[(n % 16) + 1]
        ELSE "0"]

\* the string made of the characters of a sequence
RECURSIVE Join(_)
Join(chars) == IF chars = <<>> THEN "" ELSE Head(chars) \o Join(Tail(chars))

\* mutant of generate_bridge_name: twelve digits of the hash instead of eight
generate_bridge_name_LongHash(host_name, dpu_name) ==
    LET combined == host_name \o "-" \o dpu_name
        hash_digest == sha256_hexdigest(combined)
        short_hash == SubSeq(hash_digest, 1, 12)
    IN "h2d-" \o Join(short_hash)

\* combined = f"{host_name}-{dpu_name}"; short_hash = hexdigest()[:8];
\* return f"h2d-{short_hash}"
generate_bridge_name(host_name, dpu_name) ==
    LET combined == host_name \o "-" \o dpu_name
        hash_digest == sha256_hexdigest(combined)
        short_hash == SubSeq(hash_digest, 1, 8)
    IN "h2d-" \o Join(short_hash)

\* mutant of get_host_to_dpu_network_name: the hashed name of the bridge
get_host_to_dpu_network_name_Hashed(host_name, dpu_name) ==
    generate_bridge_name(host_name, dpu_name)

\* return f"h2d-{host_name}-{dpu_name}"
get_host_to_dpu_network_name(host_name, dpu_name) ==
    "h2d-" \o host_name \o "-" \o dpu_name

\* the names derived for the pair (host, dpu): generate_bridge_name called
\* twice, get_host_to_dpu_network_name once
DerivedNames(pair) ==
    [pair |-> pair,
     bridge |-> generate_bridge_name(pair[1], pair[2]),
     again |-> generate_bridge_name(pair[1], pair[2]),
     net |-> get_host_to_dpu_network_name(pair[1], pair[2])]

\* both functions are applied to two pairs of node names
DeriveNames ==
    /\ pc = "names" /\ dep.mode = "names" /\ dep.out = <<>>
    /\ dep' = [dep EXCEPT !.out = << DerivedNames(dep.a), DerivedNames(dep.b) >>]
    /\ UNCHANGED <<runVars, histVars, pollIn, pollOut, wait, td, ovn>>

InitNames ==
    /\ dep \in {[mode |-> "names", a |-> <<h1, d1>>, b |-> <<h2, d2>>,
                  out |-> <<>>] : h1, d1, h2, d2 \in NodeNames}
    /\ config = [vms |-> <<>>, clusters |-> <<>>]
    /\ entry = None /\ parallel = FALSE /\ vm_arg = None
    /\ pc = "names"
    /\ InitLocals /\ InitHist
    /\ pollIn = NoPoll /\ pollOut = NoPollOut /\ wait = NoWait /\ td = NoTd
    /\ ovn = NoOvn

NextNames == DeriveNames

SpecNames == InitNames /\ [][NextNames]_vars

----------------------------------------------------------------------------
(* VMDeployer.deploy and run_full_setup of dpu-sim.py *)

\* an entry of config['networks']
Net(n, bridge_name, mode, use_ovs, attach_to) ==
    [name |-> n, bridge_name |-> bridge_name, mode |-> mode,
     use_ovs |-> use_ovs, attach_to |-> attach_to]

\* config['vms']: a host and its DPU; a host with two DPUs; a host, a DPU
\* without 'host' and a VM without 'type'; a DPU whose 'host' names no VM; a
\* DPU whose 'host' names another DPU
DeployTopologies == {
    << Node("host1", "host", None), Node("dpu1", "dpu", "host1") >>,
    << Node("host1", "host", None), Node("dpu1", "dpu", "host1"),
       Node("dpu2", "dpu", "host1") >>,
    << Node("host1", "host", None), Node("dpu1", "dpu", None),
       Node("dpu2", None, None) >>,
    << Node("host1", "host", None), Node("dpu1", "dpu", "host2") >>,
    << Node("host1", "host", None), Node("dpu1", "dpu", "host1"),
       Node("dpu2", "dpu", "dpu1") >> }

\* config['networks'] (<<>>: key absent or empty, which the deployer treats
\* alike): a NAT network and an OVS network for the DPUs; a network that carries the name of a pairing network; a
\* network on the bridge of a pairing network; a network of unknown mode
DeployNetworks == {
    <<>>,
    << Net("mgmt", "virbr-mgmt", "nat", FALSE, "any"),
       Net("data", "br-data", "l2-bridge", TRUE, "dpu") >>,
    << Net("mgmt", "virbr-mgmt", "nat", FALSE, "any"),
       Net(get_host_to_dpu_network_name("host1", "dpu1"), "br-x",
           "l2-bridge", TRUE, "any") >>,
    << Net("data", generate_bridge_name("host1", "dpu1"), "l2-bridge", TRUE,
           "host") >>,
    << Net("mgmt", "virbr-mgmt", "nat", FALSE, "any"),
       Net("lab", "br-lab", "routed", FALSE, "any") >> }

\* what the host answers to one create_network
NetOutcomes == {"ok", "add-br failed", "networkDefineXML failed",
                "network.create failed"}

\* create_ovs_bridge: True when the bridge exists or could be added
create_ovs_bridge(bridges, bridge_name, outcome) ==
    IF bridge_name \in bridges THEN [ok |-> TRUE, bridges |-> bridges]
    ELSE IF outcome = "add-br failed" THEN [ok |-> FALSE, bridges |-> bridges]
    ELSE [ok |-> TRUE, bridges |-> bridges \cup {bridge_name}]

\* create_network on a host with the networks `nets` and OVS bridges
\* `bridges`; libvirt refuses to define a second network of the same name
create_network(net_config, nets, bridges, outcome) ==
    LET ovs == net_config.mode = "l2-bridge" /\ net_config.use_ovs
        br == IF ovs
              THEN create_ovs_bridge(bridges, net_config.bridge_name, outcome)
              ELSE [ok |-> TRUE, bridges |-> bridges]
    IN IF net_config.mode \notin {"l2-bridge", "nat"}
       THEN [ok |-> FALSE, nets |-> nets, bridges |-> bridges]
       ELSE IF ~br.ok
       THEN [ok |-> FALSE, nets |-> nets, bridges |-> br.bridges]
       ELSE IF outcome = "networkDefineXML failed"
               \/ \E i \in DOMAIN nets : nets[i].name = net_config.name
       THEN [ok |-> FALSE, nets |-> nets, bridges |-> br.bridges]
       ELSE [ok |-> outcome # "network.create failed",
             nets |-> Append(nets, [name |-> net_config.name,
                                    bridge |-> net_config.bridge_name,
                                    active |-> outcome # "network.create failed"]),
             bridges |-> br.bridges]

\* the net_config create_host_to_dpu_networks builds for a pair
PairNet(pair) ==
    Net(get_host_to_dpu_network_name(pair[1], pair[2]),
        generate_bridge_name(pair[1], pair[2]), "l2-bridge", TRUE, None)

\* create_vm: the interfaces on the configured networks
RECURSIVE ConfiguredInterfaces(_, _)
ConfiguredInterfaces(networks, vm_type) ==
    IF networks = <<>> THEN <<>>
    ELSE LET net_config == Head(networks)
             attach_to == IF net_config.attach_to = None THEN "any"
                          ELSE net_config.attach_to
         IN IF attach_to # "any" /\ attach_to # vm_type
            THEN ConfiguredInterfaces(Tail(networks), vm_type)
            ELSE <<net_config.name>>
                 \o ConfiguredInterfaces(Tail(networks), vm_type)

\* create_vm, vm_type == 'host': for dpu in config['vms']: if it is a DPU of
\* this host: add the interface; break
RECURSIVE HostPairInterfaces(_, _)
HostPairInterfaces(vms, vm_name) ==
    IF vms = <<>> THEN <<>>
    ELSE LET dpu == Head(vms) IN
         IF dpu.type = "dpu" /\ dpu.host = vm_name
         THEN << get_host_to_dpu_network_name(vm_name, dpu.name) >>
         ELSE HostPairInterfaces(Tail(vms), vm_name)

\* create_vm: network_interfaces of the domain XML
network_interfaces(vm_config, vms, networks) ==
    ConfiguredInterfaces(networks, vm_config.type)
    \o (IF vm_config.type = "host"
        THEN HostPairInterfaces(vms, vm_config.name)
        ELSE IF vm_config.type = "dpu" /\ vm_config.host # None
        THEN << get_host_to_dpu_network_name(vm_config.host, vm_config.name) >>
        ELSE <<>>)

\* where create_vm can return None; after "vm.create failed" the domain stays
\* defined
VmOutcomes == {"ok", "download_cloud_image failed", "create_vm_disk failed",
               "create_cloud_init_iso failed", "defineXML failed",
               "vm.create failed"}

\* libvirt starts a domain only when every network of its interfaces is
\* defined and active
Startable(interfaces, nets) ==
    \A k \in DOMAIN interfaces :
        \E i \in DOMAIN nets : nets[i].name = interfaces[k] /\ nets[i].active

\* one create_network or create_vm: what the host answered and what the
\* function returned
DeployEvent(op, name, bridge, derived, answer, ok) ==
    [op |-> op, name |-> name, bridge |-> bridge, derived |-> derived,
     answer |-> answer, ok |-> ok]

\* deploy returns `ret`; run_full_setup goes on to install_software only when
\* deploy_vms returned True
DeployReturn(ret, log) ==
    dep' = [dep EXCEPT !.phase = "returned", !.ret = ret, !.log = log,
                       !.next = IF ret THEN "install_software"
                                ELSE "return False"]

\* if not self.connect(): return False; if cleanup: self.cleanup_all() (the
\* host holds nothing of this configuration yet)
DeployConnect ==
    /\ pc = "deploy" /\ dep.mode = "vm" /\ dep.phase = "connect"
    /\ \E ok \in BOOLEAN :
          IF ~ok THEN DeployReturn(FALSE, dep.log)
          ELSE dep' = [dep EXCEPT !.phase = "networks", !.i = 1]
    /\ UNCHANGED <<runVars, histVars, pollIn, pollOut, wait, td, ovn>>

\* create_networks: for net_config in networks_config:
\*     if not self.create_network(net_config): return False
CreateNetworks ==
    /\ pc = "deploy" /\ dep.mode = "vm" /\ dep.phase = "networks"
    /\ IF dep.i > Len(dep.networks)
       THEN dep' = [dep EXCEPT !.phase = "host_to_dpu", !.i = 1]
       ELSE \E outcome \in NetOutcomes :
               LET net_config == dep.networks[dep.i]
                   r == create_network(net_config, dep.nets, dep.bridges,
                                       outcome)
                   log == Append(dep.log,
                                 DeployEvent("create_network", net_config.name,
                                             net_config.bridge_name, FALSE,
                                             outcome, r.ok))
               IN IF ~r.ok
                  THEN /\ DeployReturn(FALSE, log)
                       /\ dep'.nets = r.nets /\ dep'.bridges = r.bridges
                  ELSE dep' = [dep EXCEPT !.nets = r.nets,
                                          !.bridges = r.bridges,
                                          !.log = log, !.i = dep.i + 1]
    /\ UNCHANGED <<runVars, histVars, pollIn, pollOut, wait, td, ovn>>

\* create_host_to_dpu_networks: for host, dpu in pairs:
\*     if not self.create_network(net_config): return False
CreateHostToDpuNetworks ==
    /\ pc = "deploy" /\ dep.mode = "vm" /\ dep.phase = "host_to_dpu"
    /\ LET pairs == get_host_dpu_pairs(dep.vms) IN
       IF dep.i > Len(pairs)
       THEN dep' = [dep EXCEPT !.phase = "vms", !.i = 1]
       ELSE \E outcome \in NetOutcomes :
               LET net_config == PairNet(pairs[dep.i])
                   r == create_network(net_config, dep.nets, dep.bridges,
                                       outcome)
                   log == Append(dep.log,
                                 DeployEvent("create_network", net_config.name,
                                             net_config.bridge_name, TRUE,
                                             outcome, r.ok))
               IN IF ~r.ok
                  THEN /\ DeployReturn(FALSE, log)
                       /\ dep'.nets = r.nets /\ dep'.bridges = r.bridges
                  ELSE dep' = [dep EXCEPT !.nets = r.nets,
                                          !.bridges = r.bridges,
                                          !.log = log, !.i = dep.i + 1]
    /\ UNCHANGED <<runVars, histVars, pollIn, pollOut, wait, td, ovn>>

\* if not self.create_vm(vm_config): print a warning
AfterCreateVm(vm) == "next"

\* for vm_config in self.config['vms']: create_vm; then wait_for_vms,
\* display_vm_network_info, return True
CreateVms ==
    /\ pc = "deploy" /\ dep.mode = "vm" /\ dep.phase = "vms"
    /\ IF dep.i > Len(dep.vms)
       THEN DeployReturn(TRUE, dep.log)
       ELSE \E outcome \in VmOutcomes :
               LET vm_config == dep.vms[dep.i]
                   xml == network_interfaces(vm_config, dep.vms, dep.networks)
                   vm == IF outcome = "ok" THEN vm_config.name ELSE None
                   log == Append(dep.log,
                                 DeployEvent("create_vm", vm_config.name, None,
                                             FALSE, outcome, vm # None))
                   domains ==
                       IF outcome \notin {"ok", "vm.create failed"}
                       THEN dep.domains
                       ELSE Append(dep.domains,
                                   [name |-> vm_config.name,
                                    interfaces |-> xml,
                                    started |-> outcome = "ok"])
               IN /\ outcome = "ok" => Startable(xml, dep.nets)
                  /\ IF AfterCreateVm(vm) = "next"
                     THEN dep' = [dep EXCEPT !.domains = domains, !.log = log,
                                             !.i = dep.i + 1]
                     ELSE DeployReturn(FALSE, log)
    /\ UNCHANGED <<runVars, histVars, pollIn, pollOut, wait, td, ovn>>

InitDeploy ==
    /\ dep \in {[mode |-> "vm", phase |-> "connect", i |-> 1, vms |-> v,
                  networks |-> n, nets |-> <<>>, bridges |-> {},
                  domains |-> <<>>, log |-> <<>>, ret |-> FALSE,
                  next |-> None] :
                    v \in DeployTopologies, n \in DeployNetworks}
    /\ config = [vms |-> <<>>, clusters |-> <<>>]
    /\ entry = None /\ parallel = FALSE /\ vm_arg = None
    /\ pc = "deploy"
    /\ InitLocals /\ InitHist
    /\ pollIn = NoPoll /\ pollOut = NoPollOut /\ wait = NoWait /\ td = NoTd
    /\ ovn = NoOvn

NextDeploy ==
    DeployConnect \/ CreateNetworks \/ CreateHostToDpuNetworks \/ CreateVms

SpecDeploy == InitDeploy /\ [][NextDeploy]_vars

----------------------------------------------------------------------------
(* Teardown: cleanup_vms, cleanup_networks, KindCleanup.run *)

\* the VMs of the torn-down configuration: a host and its DPU
TdVmNames == {"host1", "dpu1"}

\* config['networks']: a NAT network on a Linux bridge, an l2-bridge on OVS
TdNetworks ==
    << [name |-> "mgmt", bridge_name |-> "virbr-mgmt", use_ovs |-> FALSE],
       [name |-> "data", bridge_name |-> "br-data", use_ovs |-> TRUE] >>

\* config['vms'] of the torn-down configuration
TdVms == << Node("host1", "host", None), Node("dpu1", "dpu", "host1") >>

\* every network cleanup_networks visits, with the bridge it hands to
\* cleanup_ovs_bridge (None: no OVS bridge to remove)
TdNets ==
    {[name |-> TdNetworks[i].name,
      bridge |-> IF TdNetworks[i].use_ovs THEN TdNetworks[i].bridge_name
                 ELSE None] : i \in DOMAIN TdNetworks}
    \cup {[name |-> get_host_to_dpu_network_name(pr[1], pr[2]),
           bridge |-> generate_bridge_name(pr[1], pr[2])] :
              pr \in Range(get_host_dpu_pairs(TdVms))}

TdNetNames == {n.name : n \in TdNets}
TdBridges == {n.bridge : n \in TdNets} \ {None}

\* the Kind clusters of a container-mode configuration
KindNames == {"k1", "k2"}

\* get_cluster_names: [c.get('name') for c in clusters if c.get('name')]
get_cluster_names(clusters) ==
    {clusters[i].name : i \in {j \in DOMAIN clusters : clusters[j].name # None}}

\* what create_vm can leave behind for one VM: nothing; the disk; the disk and
\* the ISO; these and the defined domain; the running domain
VmArtifacts ==
    {[defined |-> d, active |-> a, disk |-> k, iso |-> i] :
        d, a, k, i \in BOOLEAN}

CreateVmStates ==
    {s \in VmArtifacts : /\ s.active => s.defined
                         /\ s.defined => s.iso
                         /\ s.iso => s.disk}

\* what create_network can leave behind: nothing; the defined network; the
\* started network
CreateNetStates ==
    {[defined |-> d, active |-> a] : d, a \in BOOLEAN} \
    {[defined |-> FALSE, active |-> TRUE]}

Gone == [defined |-> FALSE, active |-> FALSE, disk |-> FALSE, iso |-> FALSE]

\* one iteration of the loop of cleanup_vms on a VM in state st; bad: the
\* undefine raises libvirtError.  Result: the state left, the removals
\* attempted, and whether one of them failed.
cleanup_vm(name, st, bad) ==
    IF ~st.defined
    THEN [st |-> st, acts |-> {}, failed |-> FALSE]
    ELSE LET stop == IF st.active THEN {<<"destroy", name>>} ELSE {} IN
         IF bad
         THEN [st |-> [st EXCEPT !.active = FALSE],
               acts |-> stop \cup {<<"undefine", name>>}, failed |-> TRUE]
         ELSE [st |-> Gone,
               acts |-> stop \cup {<<"undefine", name>>}
                        \cup (IF st.disk THEN {<<"unlink_disk", name>>} ELSE {})
                        \cup (IF st.iso THEN {<<"unlink_iso", name>>} ELSE {}),
               failed |-> FALSE]

\* mutant of cleanup_network: the network is stopped but stays defined
cleanup_network_StopOnly(name, st, bad) ==
    IF ~st.defined
    THEN [st |-> st, acts |-> {}, failed |-> FALSE]
    ELSE [st |-> [st EXCEPT !.active = FALSE],
          acts |-> IF st.active THEN {<<"net_destroy", name>>} ELSE {},
          failed |-> FALSE]

\* the same for a network in cleanup_networks
cleanup_network(name, st, bad) ==
    IF ~st.defined
    THEN [st |-> st, acts |-> {}, failed |-> FALSE]
    ELSE LET stop == IF st.active THEN {<<"net_destroy", name>>} ELSE {} IN
         IF bad
         THEN [st |-> [st EXCEPT !.active = FALSE],
               acts |-> stop \cup {<<"net_undefine", name>>}, failed |-> TRUE]
         ELSE [st |-> [defined |-> FALSE, active |-> FALSE],
               acts |-> stop \cup {<<"net_undefine", name>>}, failed |-> FALSE]

\* mutant of cleanup_ovs_bridge: del-br without asking br-exists
cleanup_ovs_bridge_NoExistsCheck(bridges, bridge_name, bad) ==
    [bridges |-> bridges \ {bridge_name},
     acts |-> {<<"del-br", bridge_name>>}, failed |-> FALSE]

\* cleanup_ovs_bridge: ovs-vsctl br-exists, then del-br; a failing del-br
\* (CalledProcessError) is swallowed
cleanup_ovs_bridge(bridges, bridge_name, bad) ==
    IF bridge_name \notin bridges
    THEN [bridges |-> bridges, acts |-> {}, failed |-> FALSE]
    ELSE IF bad
         THEN [bridges |-> bridges, acts |-> {<<"del-br", bridge_name>>},
               failed |-> TRUE]
         ELSE [bridges |-> bridges \ {bridge_name},
               acts |-> {<<"del-br", bridge_name>>}, failed |-> FALSE]

NoRun == [acts |-> {}, failed |-> FALSE, ret |-> TRUE]

\* the union of a set of sets
Flatten(S) == UNION S

\* the removals that fail in one call: none, or one of those attempted
BadChoices(S) == {{}} \cup {{x} : x \in S}

\* str.lower() on the CNI selectors and on the answers to a prompt
lower(str) ==
    CASE str = "Kindnet" -> "kindnet"
      [] str = "OVN" -> "ovn"
      [] str = "OVN-Kubernetes" -> "ovn-kubernetes"
      [] str = "YES" -> "yes"
      [] str = "Yes" -> "yes"
      [] str = "Y" -> "y"
      [] str = "NO" -> "no"
      [] OTHER -> str

\* what is typed at "Are you sure you want to continue? (yes/no): "
Answers == {"yes", "y", "YES", "Yes", "Y", "no", "NO", "n", "", "yes ", "yeah"}

\* mutant of confirmed: everything but a refusal is taken for consent
confirmed_UnlessNo(response) == lower(response) \notin {"no", "n"}

\* the negation of `response.lower() not in ['yes', 'y']`
confirmed(response) == lower(response) \in {"yes", "y"}

\* a run that stopped at the prompt
Cancelled == [acts |-> {}, failed |-> FALSE, ret |-> FALSE]

\* VMCleanup.run up to the end of cleanup_vms(config, conn): the prompt, then
\* every VM of the configuration; the connection to libvirt is taken to open
CleanupVms ==
    /\ pc = "teardown" /\ td.mode = "vm" /\ td.phase = "vms"
    /\ IF ~confirmed(td.answer)
       THEN td' = [td EXCEPT !.asked = TRUE,
                             !.runs = Append(td.runs, Cancelled),
                             !.phase = "done"]
       ELSE \E bad \in BadChoices({n \in TdVmNames : td.vms[n].defined}) :
          LET r == [n \in TdVmNames |-> cleanup_vm(n, td.vms[n], n \in bad)] IN
          td' = [td EXCEPT
                   !.asked = TRUE,
                   !.vms = [n \in TdVmNames |-> r[n].st],
                   !.cur = [acts |-> Flatten({r[n].acts : n \in TdVmNames}),
                            failed |-> bad # {}, ret |-> TRUE],
                   !.phase = "nets"]
    /\ UNCHANGED <<runVars, histVars, pollIn, pollOut, wait, ovn, dep>>

\* cleanup_networks(config, conn): the explicit networks, then the host to
\* DPU networks, each followed by cleanup_ovs_bridge where OVS is used;
\* then VMCleanup.run returns True
CleanupNetworks ==
    /\ pc = "teardown" /\ td.mode = "vm" /\ td.phase = "nets"
    /\ \E bad \in BadChoices({n \in TdNetNames : td.nets[n].defined}
                             \cup (td.bridges \cap TdBridges)) :
          LET badbr == bad \cap TdBridges
              r == [n \in TdNetNames |->
                       cleanup_network(n, td.nets[n], n \in bad)]
              b == [x \in TdBridges |->
                       cleanup_ovs_bridge(td.bridges, x, x \in badbr)]
              left == {x \in td.bridges :
                          x \in TdBridges => x \in b[x].bridges}
              run == [acts |-> td.cur.acts
                               \cup Flatten({r[n].acts : n \in TdNetNames})
                               \cup Flatten({b[x].acts : x \in TdBridges}),
                      failed |-> td.cur.failed \/ bad # {}
                                 \/ \E x \in TdBridges : b[x].failed,
                      ret |-> TRUE]
          IN td' = [td EXCEPT
                      !.nets = [n \in TdNetNames |-> r[n].st],
                      !.bridges = left,
                      !.cur = NoRun,
                      !.runs = Append(td.runs, run),
                      !.phase = "done"]
    /\ UNCHANGED <<runVars, histVars, pollIn, pollOut, wait, ovn, dep>>

\* cleanup_kubeconfigs(existing_kubeconfigs): unlink each file, then remove
\* the kubeconfig directory if it is empty
cleanup_kubeconfigs(files, dir, other, cluster_names) ==
    IF ~dir THEN [files |-> files, dir |-> dir, acts |-> {}]
    ELSE LET rest == files \ cluster_names
             empty == rest = {} /\ ~other
         IN [files |-> rest,
             dir |-> ~empty,
             acts |-> {<<"unlink_kubeconfig", c>> : c \in files \cap cluster_names}
                      \cup (IF empty THEN {<<"rmdir", "kubeconfig">>} ELSE {})]

\* mutant of kind_delete_all: the loop stops at the first failed deletion
kind_delete_all_StopAtFailure(existing_clusters, bad) ==
    [attempted |-> IF bad # {} THEN bad ELSE existing_clusters,
     deleted |-> {},
     all_success |-> bad = {}]

\* the deletion loop of KindCleanup.run; bad: the clusters whose
\* delete_cluster returns False
kind_delete_all(existing_clusters, bad) ==
    [attempted |-> existing_clusters,
     deleted |-> existing_clusters \ bad,
     all_success |-> bad = {}]

\* KindCleanup.run() as Cleanup.run calls it (confirm=True)
KindCleanupRun ==
    /\ pc = "teardown" /\ td.mode = "kind" /\ td.phase = "kind"
    /\ LET cluster_names == get_cluster_names(config.clusters)
           existing_clusters == cluster_names \cap td.clusters
           existing_kubeconfigs ==
               IF td.kdir THEN cluster_names \cap td.kubeconfigs ELSE {}
           Finish(run, clusters, k, asked) ==
               td' = [td EXCEPT !.clusters = clusters,
                                !.kubeconfigs = k.files, !.kdir = k.dir,
                                !.runs = Append(td.runs, run),
                                !.asked = asked,
                                !.phase = "done"]
           Same == [files |-> td.kubeconfigs, dir |-> td.kdir, acts |-> {}]
       IN IF ~td.kind_installed \/ cluster_names = {}
          THEN Finish([acts |-> {}, failed |-> FALSE, ret |-> FALSE],
                      td.clusters, Same, FALSE)
          ELSE IF existing_clusters = {} /\ existing_kubeconfigs = {}
          THEN Finish(NoRun, td.clusters, Same, FALSE)
          ELSE IF ~confirmed(td.answer)
          THEN Finish(Cancelled, td.clusters, Same, TRUE)
          ELSE \E bad \in BadChoices(existing_clusters) :
                  LET d == kind_delete_all(existing_clusters, bad)
                      k == IF existing_kubeconfigs # {}
                           THEN cleanup_kubeconfigs(td.kubeconfigs, td.kdir,
                                                    td.kother,
                                                    existing_kubeconfigs)
                           ELSE Same
                  IN Finish([acts |-> {<<"delete_cluster", c>> :
                                          c \in d.attempted}
                                      \cup k.acts,
                             failed |-> bad # {},
                             ret |-> d.all_success],
                            td.clusters \ d.deleted, k, TRUE)
    /\ UNCHANGED <<runVars, histVars, pollIn, pollOut, wait, ovn, dep>>

\* the most teardowns invoked in a row
MaxTeardowns == 2

\* teardown is invoked again on the same configuration
TeardownAgain ==
    /\ pc = "teardown" /\ td.phase = "done" /\ Len(td.runs) < MaxTeardowns
    /\ td' = [td EXCEPT !.phase = IF td.mode = "vm" THEN "vms" ELSE "kind"]
    /\ UNCHANGED <<runVars, histVars, pollIn, pollOut, wait, ovn, dep>>

\* the host when teardown is invoked: whatever a bring-up that stopped anywhere
\* has left behind; the prompt is answered "yes"
TdInits ==
    {[mode |-> "vm", phase |-> "vms", vms |-> v, nets |-> n, bridges |-> b,
      kind_installed |-> TRUE, clusters |-> {}, kubeconfigs |-> {},
      kdir |-> FALSE, kother |-> FALSE, cur |-> NoRun, runs |-> <<>>,
      answer |-> "yes", asked |-> FALSE] :
        v \in [TdVmNames -> CreateVmStates],
        n \in [TdNetNames -> CreateNetStates],
        b \in SUBSET TdBridges}
    \cup
    {[mode |-> "kind", phase |-> "kind",
      vms |-> [x \in TdVmNames |-> Gone],
      nets |-> [x \in TdNetNames |-> [defined |-> FALSE, active |-> FALSE]],
      bridges |-> {},
      kind_installed |-> ki, clusters |-> c, kubeconfigs |-> k,
      kdir |-> d, kother |-> o, cur |-> NoRun, runs |-> <<>>,
      answer |-> "yes", asked |-> FALSE] :
        ki \in BOOLEAN, c \in SUBSET KindNames, k \in SUBSET KindNames,
        d \in BOOLEAN, o \in BOOLEAN}

InitTeardown ==
    /\ td \in {s \in TdInits :
                  /\ (s.kubeconfigs # {} \/ s.kother) => s.kdir
                  /\ \A x \in DOMAIN s.nets :
                        \A n \in TdNets :
                           (n.name = x /\ n.bridge # None /\ s.nets[x].defined)
                           => n.bridge \in s.bridges}
    /\ config \in {[vms |-> <<>>, clusters |-> cl] :
                      cl \in IF td.mode = "kind"
                             THEN {<<>>, << Cluster("k1", "kindnet"),
                                            Cluster("k2", "ovn-kubernetes"),
                                            Cluster(None, "kindnet") >>}
                             ELSE {<<>>}}
    /\ entry = None /\ parallel = FALSE /\ vm_arg = None
    /\ pc = "teardown"
    /\ InitLocals /\ InitHist
    /\ pollIn = NoPoll /\ pollOut = NoPollOut /\ wait = NoWait /\ ovn = NoOvn
    /\ dep = NoDep

NextTeardown ==
    \/ CleanupVms \/ CleanupNetworks \/ KindCleanupRun \/ TeardownAgain

SpecTeardown == InitTeardown /\ [][NextTeardown]_vars

\* the Kind clusters a host can hold: those of the configurations and one
\* that no configuration names
HostClusters == KindNames \cup {"k9"}

\* a host whose kubeconfig files lie in the kubeconfig directory and whose
\* defined OVS networks have their bridge
ConsistentHost(s) ==
    /\ (s.kubeconfigs # {} \/ s.kother) => s.kdir
    /\ \A x \in DOMAIN s.nets :
          \A n \in TdNets :
             (n.name = x /\ n.bridge # None /\ s.nets[x].defined)
             => n.bridge \in s.bridges

\* cleanup.py invoked on any such host, with any answer to the prompt
InitConfirm ==
    /\ td \in {[s EXCEPT !.answer = a] :
                  s \in {t \in TdInits : t.mode = "vm" /\ ConsistentHost(t)},
                  a \in Answers}
             \cup
             {[mode |-> "kind", phase |-> "kind",
               vms |-> [x \in TdVmNames |-> Gone],
               nets |-> [x \in TdNetNames |->
                            [defined |-> FALSE, active |-> FALSE]],
               bridges |-> {},
               kind_installed |-> ki, clusters |-> c, kubeconfigs |-> k,
               kdir |-> k # {}, kother |-> FALSE, cur |-> NoRun,
               runs |-> <<>>, answer |-> a, asked |-> FALSE] :
                 ki \in BOOLEAN, c \in SUBSET HostClusters,
                 k \in SUBSET HostClusters, a \in Answers}
    /\ config \in {[vms |-> <<>>, clusters |-> cl] :
                      cl \in IF td.mode = "kind"
                             THEN {<<>>, << Cluster("k1", "kindnet") >>,
                                   << Cluster("k1", "kindnet"),
                                      Cluster("k2", "ovn-kubernetes"),
                                      Cluster(None, "kindnet") >>}
                             ELSE {<<>>}}
    /\ entry = None /\ parallel = FALSE /\ vm_arg = None
    /\ pc = "teardown"
    /\ InitLocals /\ InitHist
    /\ pollIn = NoPoll /\ pollOut = NoPollOut /\ wait = NoWait /\ ovn = NoOvn
    /\ dep = NoDep

SpecConfirm == InitConfirm /\ [][NextTeardown]_vars

----------------------------------------------------------------------------
(* deploy(cleanup) run again on the same configuration *)

\* the most deployments in a row
MaxDeploys == 2

NoTeardown == [acts |-> {}, failed |-> FALSE]

\* the libvirt state of a VM and of a network of the configuration
DomainState(domains, name) ==
    IF \E k \in DOMAIN domains : domains[k].name = name
    THEN LET k == CHOOSE k \in DOMAIN domains : domains[k].name = name
         IN [defined |-> TRUE, active |-> domains[k].started, disk |-> TRUE,
             iso |-> TRUE]
    ELSE Gone

NetworkState(nets, name) ==
    IF \E i \in DOMAIN nets : nets[i].name = name
    THEN LET i == CHOOSE i \in DOMAIN nets : nets[i].name = name
         IN [defined |-> TRUE, active |-> nets[i].active]
    ELSE [defined |-> FALSE, active |-> FALSE]

\* the networks cleanup_networks looks up, and the bridges it hands to
\* cleanup_ovs_bridge: `if use_ovs and bridge_name` for a declared network,
\* always for a host to DPU network
CleanupNetNames(vms, networks) ==
    {networks[i].name : i \in DOMAIN networks}
    \cup {get_host_to_dpu_network_name(pr[1], pr[2]) :
             pr \in Range(get_host_dpu_pairs(vms))}

CleanupBridgeNames(vms, networks) ==
    {networks[i].bridge_name :
        i \in {j \in DOMAIN networks : networks[j].use_ovs}}
    \cup {generate_bridge_name(pr[1], pr[2]) :
             pr \in Range(get_host_dpu_pairs(vms))}

\* cleanup_all: cleanup_vms then cleanup_networks on the host; bad: the
\* removals that fail
cleanup_all(vms, networks, domains, nets, bridges, bad) ==
    LET names == {vms[i].name : i \in DOMAIN vms}
        v == [n \in names |-> cleanup_vm(n, DomainState(domains, n), n \in bad)]
        netnames == CleanupNetNames(vms, networks)
        r == [n \in netnames |->
                 cleanup_network(n, NetworkState(nets, n), n \in bad)]
        brnames == CleanupBridgeNames(vms, networks)
        b == [x \in brnames |-> cleanup_ovs_bridge(bridges, x, x \in bad)]
        KeepDomain(d) == d.name \in names => v[d.name].st.defined
        KeepNet(n) == n.name \in netnames => r[n.name].st.defined
    IN [domains |-> [k \in DOMAIN SelectSeq(domains, KeepDomain) |->
                        [SelectSeq(domains, KeepDomain)[k]
                            EXCEPT !.started = FALSE]],
        nets |-> [k \in DOMAIN SelectSeq(nets, KeepNet) |->
                     [SelectSeq(nets, KeepNet)[k] EXCEPT !.active = FALSE]],
        bridges |-> {x \in bridges : x \in brnames => x \in b[x].bridges},
        acts |-> Flatten({v[n].acts : n \in names})
                 \cup Flatten({r[n].acts : n \in netnames})
                 \cup Flatten({b[x].acts : x \in brnames}),
        failed |-> bad # {}]

\* if not self.connect(): return False; if cleanup: self.cleanup_all()
DeployCleanupAll ==
    /\ pc = "deploy" /\ dep.mode = "vm" /\ dep.phase = "cleanup"
    /\ \E ok \in BOOLEAN :
          IF ~ok THEN DeployReturn(FALSE, dep.log)
          ELSE IF ~dep.cleanup
          THEN dep' = [dep EXCEPT !.phase = "networks", !.i = 1]
          ELSE \E bad \in BadChoices(
                      {dep.domains[k].name : k \in DOMAIN dep.domains}
                      \cup {dep.nets[k].name : k \in DOMAIN dep.nets}
                      \cup dep.bridges) :
                  LET r == cleanup_all(dep.vms, dep.networks, dep.domains,
                                       dep.nets, dep.bridges, bad)
                  IN dep' = [dep EXCEPT !.phase = "networks", !.i = 1,
                                        !.domains = r.domains,
                                        !.nets = r.nets,
                                        !.bridges = r.bridges,
                                        !.td = [acts |-> r.acts,
                                                failed |-> r.failed]]
    /\ UNCHANGED <<runVars, histVars, pollIn, pollOut, wait, td, ovn>>

\* deploy.py is run again on the same configuration
DeployAgain ==
    /\ pc = "deploy" /\ dep.mode = "vm" /\ dep.phase = "returned"
    /\ dep.run < MaxDeploys
    /\ dep' = [dep EXCEPT
                  !.prev = [ret |-> dep.ret,
                            answered |-> /\ dep.log # << >> /\ ~dep.td.failed
                                         /\ \A k \in DOMAIN dep.log :
                                               dep.log[k].answer = "ok",
                            nets |-> {dep.nets[k].name : k \in DOMAIN dep.nets},
                            domains |-> {dep.domains[k].name :
                                            k \in DOMAIN dep.domains}],
                  !.run = dep.run + 1, !.phase = "cleanup", !.i = 1,
                  !.log = << >>, !.ret = FALSE, !.next = None,
                  !.td = NoTeardown]
    /\ UNCHANGED <<runVars, histVars, pollIn, pollOut, wait, td, ovn>>

\* the configurations deployed twice: those of two VMs
RedeployTopologies == {t \in DeployTopologies : Len(t) <= 2}

InitRedeploy ==
    /\ dep \in {[mode |-> "vm", phase |-> "cleanup", i |-> 1, vms |-> v,
                  networks |-> n, nets |-> <<>>, bridges |-> {},
                  domains |-> <<>>, log |-> <<>>, ret |-> FALSE,
                  next |-> None, cleanup |-> c, run |-> 1,
                  td |-> NoTeardown,
                  prev |-> [ret |-> FALSE, answered |-> FALSE, nets |-> {},
                            domains |-> {}]] :
                    v \in RedeployTopologies, n \in DeployNetworks,
                    c \in BOOLEAN}
    /\ config = [vms |-> <<>>, clusters |-> <<>>]
    /\ entry = None /\ parallel = FALSE /\ vm_arg = None
    /\ pc = "deploy"
    /\ InitLocals /\ InitHist
    /\ pollIn = NoPoll /\ pollOut = NoPollOut /\ wait = NoWait /\ td = NoTd
    /\ ovn = NoOvn

NextRedeploy ==
    \/ DeployCleanupAll \/ CreateNetworks \/ CreateHostToDpuNetworks
    \/ CreateVms \/ DeployAgain

SpecRedeploy == InitRedeploy /\ [][NextRedeploy]_vars

----------------------------------------------------------------------------
(* install_ovn_kubernetes: the manifests of OVN-Kubernetes *)

\* manifests: the custom resource definitions, then namespace and RBAC
manifests ==
    << "k8s.ovn.org_egressfirewalls.yaml",
       "k8s.ovn.org_egressips.yaml",
       "k8s.ovn.org_egressqoses.yaml",
       "k8s.ovn.org_egressservices.yaml",
       "k8s.ovn.org_adminpolicybasedexternalroutes.yaml",
       "k8s.ovn.org_networkqoses.yaml",
       "k8s.ovn.org_userdefinednetworks.yaml",
       "k8s.ovn.org_clusteruserdefinednetworks.yaml",
       "k8s.ovn.org_routeadvertisements.yaml",
       "k8s.ovn.org_clusternetworkconnects.yaml",
       "https://raw.githubusercontent.com/kubernetes-sigs/network-policy-api/v0.1.5/config/crd/experimental/policy.networking.k8s.io_adminnetworkpolicies.yaml",
       "https://raw.githubusercontent.com/kubernetes-sigs/network-policy-api/v0.1.5/config/crd/experimental/policy.networking.k8s.io_baselineadminnetworkpolicies.yaml",
       "ovn-setup.yaml",
       "rbac-ovnkube-identity.yaml",
       "rbac-ovnkube-cluster-manager.yaml",
       "rbac-ovnkube-master.yaml",
       "rbac-ovnkube-node.yaml",
       "rbac-ovnkube-db.yaml" >>

global_zone_manifests ==
    << "ovs-node.yaml", "ovnkube-db.yaml", "ovnkube-identity.yaml",
       "ovnkube-master.yaml", "ovnkube-node.yaml" >>

\* manifest.startswith("http")
is_external(manifest) ==
    manifest \in
      {"https://raw.githubusercontent.com/kubernetes-sigs/network-policy-api/v0.1.5/config/crd/experimental/policy.networking.k8s.io_adminnetworkpolicies.yaml",
       "https://raw.githubusercontent.com/kubernetes-sigs/network-policy-api/v0.1.5/config/crd/experimental/policy.networking.k8s.io_baselineadminnetworkpolicies.yaml"}

LabelStep == "label_ovn_master_nodes"

\* what label_ovn_master_nodes meets: kubectl get nodes fails, a kubectl label
\* fails, or every node is labelled (failing taint removals are ignored)
LabelOutcomes == {"get_nodes_failed", "label_failed", "taint_failed", "ok"}

label_ovn_master_nodes(out) == out \in {"ok", "taint_failed"}

\* install_ovn_kubernetes returns
OvnReturn(log, ret) ==
    ovn' = [ovn EXCEPT !.phase = "done", !.log = log, !.ret = ret]

\* yaml_dir = get_yaml_dir_path(repo_path); if not yaml_dir.exists(): return False
OvnInstallStart ==
    /\ pc \in {"ovn_install", "kind_deploy"} /\ ovn.phase = "start"
    /\ IF ~ovn.yaml_dir THEN OvnReturn(ovn.log, FALSE)
       ELSE ovn' = [ovn EXCEPT !.phase = "manifests", !.i = 1]
    /\ UNCHANGED <<runVars, histVars, pollIn, pollOut, wait, td, dep>>

\* mutant of AfterApply: a failed kubectl apply does not stop apply_manifests
AfterApply_KeepGoing(rc) == "next"

\* apply_manifests: if result.returncode != 0: return False
AfterApply(rc) == IF rc THEN "next" ELSE "return_false"

\* apply_manifests, one iteration of `for manifest in manifests`, and what
\* install_ovn_kubernetes does when the list is finished
ApplyManifest ==
    /\ pc \in {"ovn_install", "kind_deploy"} /\ ovn.phase \in {"manifests", "global"}
    /\ LET list == IF ovn.phase = "manifests" THEN manifests
                   ELSE global_zone_manifests
           manifest == list[ovn.i]
       IN IF ~is_external(manifest) /\ manifest \in ovn.missing
          THEN OvnReturn(Append(ovn.log, [item |-> manifest, ev |-> "not_found",
                                          ok |-> FALSE]), FALSE)
          ELSE \E rc \in BOOLEAN :
                  LET log == Append(ovn.log, [item |-> manifest, ev |-> "apply",
                                              ok |-> rc])
                  IN IF AfterApply(rc) = "return_false"
                     THEN OvnReturn(log, FALSE)
                     ELSE IF ovn.i < Len(list)
                     THEN ovn' = [ovn EXCEPT !.i = ovn.i + 1, !.log = log]
                     ELSE IF ovn.phase = "manifests"
                     THEN ovn' = [ovn EXCEPT !.phase = "label", !.log = log]
                     ELSE OvnReturn(log, TRUE)
    /\ UNCHANGED <<runVars, histVars, pollIn, pollOut, wait, td, dep>>

\* if not label_ovn_master_nodes(kubeconfig_path): return False
LabelOvnMasterNodes ==
    /\ pc \in {"ovn_install", "kind_deploy"} /\ ovn.phase = "label"
    /\ \E out \in LabelOutcomes :
          LET ok == label_ovn_master_nodes(out)
              log == Append(ovn.log, [item |-> LabelStep, ev |-> "label",
                                      ok |-> ok])
          IN IF ok THEN ovn' = [ovn EXCEPT !.phase = "global", !.i = 1,
                                           !.log = log]
             ELSE OvnReturn(log, FALSE)
    /\ UNCHANGED <<runVars, histVars, pollIn, pollOut, wait, td, dep>>

\* the local manifest files of dist/yaml
LocalManifests ==
    {m \in Range(manifests) \cup Range(global_zone_manifests) : ~is_external(m)}

\* dist/yaml when install_ovn_kubernetes is called: absent, complete, or one
\* file short
OvnInits(phase) ==
    {[phase |-> phase, i |-> 1, yaml_dir |-> d, missing |-> ms,
      log |-> <<>>, ret |-> FALSE, failed_at |-> None, polled |-> None,
      kret |-> None] :
        d \in BOOLEAN, ms \in {{}} \cup {{m} : m \in LocalManifests}}

InitOvn ==
    /\ ovn \in OvnInits("start")
    /\ config = [vms |-> <<>>, clusters |-> <<>>]
    /\ entry = None /\ parallel = FALSE /\ vm_arg = None
    /\ pc = "ovn_install"
    /\ InitLocals /\ InitHist
    /\ pollIn = NoPoll /\ pollOut = NoPollOut /\ wait = NoWait /\ td = NoTd
    /\ dep = NoDep

NextOvn == OvnInstallStart \/ ApplyManifest \/ LabelOvnMasterNodes

SpecOvn == InitOvn /\ [][NextOvn]_vars

----------------------------------------------------------------------------
(* KindDeployer.deploy_ovn_kubernetes *)

\* the steps of deploy_ovn_kubernetes before install_ovn_kubernetes, each of
\* which returns False when it fails
KindPrepSteps ==
    << "kubeconfig_path.exists", "configure_ipv6_on_nodes",
       "patch_coredns_for_ovn", "get_api_server_url",
       "prepare_ovn_kubernetes_deployment", "load_ovn_image" >>

\* deploy_ovn_kubernetes returns `kret` to KindDeployer.deploy: True goes on to
\* display_cluster_info, False ends the deployment
KindReturn(kret, failed_at, polled) ==
    ovn' = [ovn EXCEPT !.phase = IF kret THEN "display_cluster_info"
                                 ELSE "deploy_failed",
                       !.kret = kret, !.failed_at = failed_at,
                       !.polled = polled]

\* the steps up to load_ovn_image
KindPrepare ==
    /\ pc = "kind_deploy" /\ ovn.phase = "kind_prepare"
    /\ \E bad \in {None} \cup Range(KindPrepSteps) :
          IF bad # None THEN KindReturn(FALSE, bad, None)
          ELSE ovn' = [ovn EXCEPT !.phase = "start"]
    /\ UNCHANGED <<runVars, histVars, pollIn, pollOut, wait, td, dep>>

\* mutant of AfterKindWait: a failed kubectl wait fails the install
AfterKindWait_Checked(returncode) == returncode = 0

\* if result.returncode != 0: print a warning; ...; return True
AfterKindWait(returncode) == TRUE

\* if not install_ovn_kubernetes(...): return False; then kubectl wait
KindAfterInstall ==
    /\ pc = "kind_deploy" /\ ovn.phase = "done"
    /\ IF ~ovn.ret THEN KindReturn(FALSE, "install_ovn_kubernetes", None)
       ELSE \E returncode \in {0, 1} :
               KindReturn(AfterKindWait(returncode),
                          IF AfterKindWait(returncode) THEN None
                          ELSE "kubectl wait",
                          returncode = 0)
    /\ UNCHANGED <<runVars, histVars, pollIn, pollOut, wait, td, dep>>

InitKind ==
    /\ ovn \in OvnInits("kind_prepare")
    /\ config = [vms |-> <<>>, clusters |-> <<>>]
    /\ entry = None /\ parallel = FALSE /\ vm_arg = None
    /\ pc = "kind_deploy"
    /\ InitLocals /\ InitHist
    /\ pollIn = NoPoll /\ pollOut = NoPollOut /\ wait = NoWait /\ td = NoTd
    /\ dep = NoDep

NextKind == KindPrepare \/ KindAfterInstall

\* the CNI stage of both backends
InitCni == Init \/ InitKind

NextCni == Next \/ NextOvn \/ NextKind

SpecCni == InitCni /\ [][NextCni]_vars

----------------------------------------------------------------------------
(* KindDeployer.deploy and create_cluster, kind_utils.generate_kind_config *)

MaxKindClusters == 2

\* values of a cluster's `cni` key; None is a cluster without the key
CniSelectors ==
    {None, "kindnet", "Kindnet", "flannel", "ovn", "OVN", "ovn-kubernetes",
     "OVN-Kubernetes", "ovn-k8s"}

KindClusterNames == [i \in 1..(MaxKindClusters + 1) |-> <<"cluster", i>>]

\* the clusters of config['kubernetes']['clusters'], one selector each
KindClusters ==
    UNION {[1..n -> CniSelectors] : n \in 0..MaxKindClusters}

\* cluster_config.get('cni', 'kindnet')
cni_of(cluster_config) ==
    IF cluster_config.cni = None THEN "kindnet" ELSE cluster_config.cni

\* return cni.lower() in ['ovn-kubernetes', 'ovn']
is_ovn_kubernetes(cni) == lower(cni) \in {"ovn-kubernetes", "ovn"}

\* the networking section of the Kind manifest, line by line
generate_networking_yaml(is_ovn_k) ==
    << "networking:" >>
    \o (IF is_ovn_k
        THEN << "  disableDefaultCNI: true", "  kubeProxyMode: none" >>
        ELSE << >>)
    \o << "  podSubnet", "  serviceSubnet", "  ipFamily" >>

\* generate_kind_config: is_ovn_k = is_ovn_kubernetes(cni) selects the
\* networking section (and the kubeadm patches)
generate_kind_config(cluster_config) ==
    << "kind: Cluster", "apiVersion: kind.x-k8s.io/v1alpha4" >>
    \o generate_networking_yaml(is_ovn_kubernetes(cni_of(cluster_config)))
    \o (IF is_ovn_kubernetes(cni_of(cluster_config))
        THEN << "kubeadmConfigPatches:" >> ELSE << >>)
    \o << "nodes:" >>

KindEvent(op, cluster_name, config_yaml, ok) ==
    [op |-> op, cluster |-> cluster_name, config_yaml |-> config_yaml,
     ok |-> ok]

\* outcomes of the commands of create_cluster
CreateOutcomes == {"ok", "create_failed", "kubeconfig_failed", "not_ready"}

\* create_cluster: the events it adds and its return value.  `kind create
\* cluster` runs with the generated manifest; export_kubeconfig follows; the
\* node-ready wait runs unless the selector is OVN-Kubernetes.
create_cluster(cluster_name, cluster_config, outcome) ==
    LET config_yaml == generate_kind_config(cluster_config)
        created == KindEvent("kind create cluster", cluster_name, config_yaml,
                             outcome # "create_failed")
        exported == KindEvent("export_kubeconfig", cluster_name, << >>,
                              outcome # "kubeconfig_failed")
        waited == KindEvent("wait_for_node_ready", cluster_name, << >>,
                            outcome # "not_ready")
    IN  IF outcome = "create_failed"
        THEN [ok |-> FALSE, events |-> << created >>]
        ELSE IF outcome = "kubeconfig_failed"
        THEN [ok |-> FALSE, events |-> << created, exported >>]
        ELSE IF ~is_ovn_kubernetes(cni_of(cluster_config))
        THEN [ok |-> outcome # "not_ready",
              events |-> << created, exported, waited >>]
        ELSE [ok |-> TRUE, events |-> << created, exported >>]

\* deploy returns `ret`
KindDeployReturn(ret, log) ==
    dep' = [dep EXCEPT !.phase = "returned", !.ret = ret, !.log = log]

\* check_prerequisites, the 'kind' section, the cluster list, cleanup_all
KindCheckPrerequisites ==
    /\ pc = "kind_clusters" /\ dep.mode = "kind" /\ dep.phase = "check"
    /\ \E ok \in BOOLEAN :
          IF ~ok \/ dep.clusters = << >>
          THEN KindDeployReturn(FALSE, dep.log)
          ELSE dep' = [dep EXCEPT !.phase = "create", !.i = 1]
    /\ UNCHANGED <<runVars, histVars, pollIn, pollOut, wait, td, ovn>>

\* for cluster_config in clusters:
\*     if not self.create_cluster(...): return False
KindCreateCluster ==
    /\ pc = "kind_clusters" /\ dep.mode = "kind" /\ dep.phase = "create"
    /\ IF dep.i > Len(dep.clusters)
       THEN KindDeployReturn(TRUE, dep.log)
       ELSE \E outcome \in CreateOutcomes :
               LET cluster_config == dep.clusters[dep.i]
                   r == create_cluster(cluster_config.name, cluster_config,
                                       outcome)
               IN IF ~r.ok
                  THEN KindDeployReturn(FALSE, dep.log \o r.events)
                  ELSE dep' = [dep EXCEPT !.phase = "cni",
                                          !.log = dep.log \o r.events]
    /\ UNCHANGED <<runVars, histVars, pollIn, pollOut, wait, td, ovn>>

\* cni = cluster_config.get('cni', 'kindnet').lower()
\* if is_ovn_kubernetes(cni): if not deploy_ovn_kubernetes(...): return False
\* elif cni != 'kindnet': a note; then display_cluster_info
KindInstallCni ==
    /\ pc = "kind_clusters" /\ dep.mode = "kind" /\ dep.phase = "cni"
    /\ LET cluster_config == dep.clusters[dep.i]
           cni == lower(cni_of(cluster_config))
       IN IF is_ovn_kubernetes(cni)
          THEN \E ok \in BOOLEAN :
                  LET log == Append(dep.log,
                                    KindEvent("deploy_ovn_kubernetes",
                                              cluster_config.name, << >>, ok))
                  IN IF ~ok THEN KindDeployReturn(FALSE, log)
                     ELSE dep' = [dep EXCEPT !.phase = "create", !.log = log,
                                             !.i = dep.i + 1]
          ELSE dep' = [dep EXCEPT
                          !.phase = "create", !.i = dep.i + 1,
                          !.log = IF cni # "kindnet"
                                  THEN Append(dep.log,
                                              KindEvent("note",
                                                        cluster_config.name,
                                                        << >>, TRUE))
                                  ELSE dep.log]
    /\ UNCHANGED <<runVars, histVars, pollIn, pollOut, wait, td, ovn>>

InitKindDeploy ==
    /\ dep \in {[mode |-> "kind", phase |-> "check", i |-> 1,
                  clusters |-> [k \in DOMAIN sel |->
                                   [name |-> KindClusterNames[k],
                                    cni |-> sel[k]]],
                  log |-> << >>, ret |-> FALSE] : sel \in KindClusters}
    /\ config = [vms |-> <<>>, clusters |-> <<>>]
    /\ entry = None /\ parallel = FALSE /\ vm_arg = None
    /\ pc = "kind_clusters"
    /\ InitLocals /\ InitHist
    /\ pollIn = NoPoll /\ pollOut = NoPollOut /\ wait = NoWait /\ td = NoTd
    /\ ovn = NoOvn

NextKindDeploy == KindCheckPrerequisites \/ KindCreateCluster \/ KindInstallCni

SpecKindDeploy == InitKindDeploy /\ [][NextKindDeploy]_vars

----------------------------------------------------------------------------
(* Backend selection: dpu-sim.py, cfg_utils.py and cleanup.py *)

\* what a configuration document holds under one key: no such key, a key
\* without value (None), an empty collection, a filled collection
SectionStates == {"absent", "null", "empty", "filled"}

\* `'k' in config` and the truth value of config['k']
has_key(section) == section # "absent"
truthy(section) == section = "filled"

ConfigDocuments == [kind : SectionStates, vms : SectionStates]

\* cleanup.is_kind_config
is_kind_config(doc) == has_key(doc.kind) /\ ~has_key(doc.vms)

\* Cleanup.run: the handler it builds
cleanup_handler(doc) == IF is_kind_config(doc) THEN "KindCleanup" ELSE "VMCleanup"

\* get_deployment_mode of dpu-sim.py; sys.exit(1) is "exit"
get_deployment_mode(doc) ==
    LET has_vms == has_key(doc.vms) /\ truthy(doc.vms)
        has_kind == has_key(doc.kind) /\ truthy(doc.kind)
    IN IF has_kind /\ has_vms THEN "exit"
       ELSE IF has_kind THEN "kind"
       ELSE IF has_vms THEN "vm"
       ELSE "exit"

\* get_deployment_mode of cfg_utils.py
cfg_get_deployment_mode(doc) ==
    LET has_vms == has_key(doc.vms) /\ truthy(doc.vms)
        has_kind == has_key(doc.kind) /\ truthy(doc.kind)
    IN IF has_kind THEN "kind"
       ELSE IF has_vms THEN "vm"
       ELSE "ValueError"

\* dpu-sim.py reads the document and picks the backend
DetectDeploy ==
    /\ pc = "detect" /\ dep.deploy = None
    /\ dep' = [dep EXCEPT !.deploy = get_deployment_mode(dep.doc)]
    /\ UNCHANGED <<runVars, histVars, pollIn, pollOut, wait, td, ovn>>

\* a caller of cfg_utils reads the document
DetectCfgUtils ==
    /\ pc = "detect" /\ dep.cfg = None
    /\ dep' = [dep EXCEPT !.cfg = cfg_get_deployment_mode(dep.doc)]
    /\ UNCHANGED <<runVars, histVars, pollIn, pollOut, wait, td, ovn>>

\* cleanup.py reads the document and builds its handler
DetectCleanup ==
    /\ pc = "detect" /\ dep.cleanup = None
    /\ dep' = [dep EXCEPT !.cleanup = cleanup_handler(dep.doc)]
    /\ UNCHANGED <<runVars, histVars, pollIn, pollOut, wait, td, ovn>>

InitDetect ==
    /\ dep \in {[mode |-> "detect", doc |-> d, deploy |-> None, cfg |-> None,
                  cleanup |-> None] : d \in ConfigDocuments}
    /\ config = [vms |-> <<>>, clusters |-> <<>>]
    /\ entry = None /\ parallel = FALSE /\ vm_arg = None
    /\ pc = "detect"
    /\ InitLocals /\ InitHist
    /\ pollIn = NoPoll /\ pollOut = NoPollOut /\ wait = NoWait /\ td = NoTd
    /\ ovn = NoOvn

NextDetect == DetectDeploy \/ DetectCfgUtils \/ DetectCleanup

SpecDetect == InitDetect /\ [][NextDetect]_vars

----------------------------------------------------------------------------
(* Properties of the bring-up run (Spec) *)

Exited == pc = "exit"

\* the run went through install_all_vms to the summary
RanAll == Exited /\ vm_arg = None /\ results # EmptyDict

DeclaredClusters == {config.clusters[i].name : i \in DOMAIN config.clusters}

ClusterOfVm(n) ==
    LET i == CHOOSE i \in DOMAIN config.vms : config.vms[i].name = n
    IN config.vms[i].k8s_cluster

WorkerNames(c) == {worker_vms(c)[i].name : i \in DOMAIN worker_vms(c)}

LogOf(c) == SelectSeq(stageLog, LAMBDA e : e.cluster = c)

CniStages == {"flannel", "multus", "ovn-kubernetes"}

StageRank(stage) ==
    CASE stage = "brex" -> 1
      [] stage = "init" -> 2
      [] stage \in CniStages -> 3
      [] stage = "join" -> 4
      [] stage = "status" -> 5

\* the stage `stage` ran on `node` and returned success before position j of L
DoneBefore(L, j, stage, node) ==
    \E i \in 1..(j - 1) : L[i].stage = stage /\ L[i].node = node /\ L[i].ok

\* the last CNI stage of cluster c
LastCniStage(c) ==
    IF cni_type(c) = "ovn-kubernetes" THEN "ovn-kubernetes" ELSE "multus"

\* C1: per cluster the stages run in the order (OVN only: br-ex) -> init -> CNI
\* -> joins -> status; a stage starts only after the stages before it returned
\* success; no stage runs out of order, is skipped, or runs twice.
C1_StageOrder ==
    \A c \in ClusterNames :
       LET L == LogOf(c) IN
       \A j \in DOMAIN L :
          LET m == master_vms(c)[1].name IN
          /\ \A i \in 1..(j - 1) :
                /\ StageRank(L[i].stage) <= StageRank(L[j].stage)
                /\ L[i].ok
                /\ <<L[i].stage, L[i].node>> # <<L[j].stage, L[j].node>>
          /\ L[j].stage = "brex" => cni_type(c) = "ovn-kubernetes"
          /\ (L[j].stage = "init" /\ cni_type(c) = "ovn-kubernetes") =>
                \A n \in {m} \cup WorkerNames(c) : DoneBefore(L, j, "brex", n)
          /\ L[j].stage \in CniStages => DoneBefore(L, j, "init", m)
          /\ L[j].stage = "multus" => DoneBefore(L, j, "flannel", m)
          /\ L[j].stage = "join" => DoneBefore(L, j, LastCniStage(c), m)
          /\ L[j].stage = "status" =>
                /\ DoneBefore(L, j, LastCniStage(c), m)
                /\ \A w \in WorkerNames(c) : DoneBefore(L, j, "join", w)

\* an OVN cluster with workers went through all five stages
C1_Witness ==
    \E c \in ClusterNames :
       LET L == LogOf(c) IN
       /\ \E j \in DOMAIN L : L[j].stage = "status"
       /\ \E j \in DOMAIN L : L[j].stage = "brex"
       /\ \E j \in DOMAIN L : L[j].stage = "join"

\* the clusters whose bootstrap control-plane node failed host preparation
BootstrapFailed ==
    {c \in Range(clusters_vms) :
        master_vms(c) # <<>> /\ master_vms(c)[1].name \in prepFailed}

RecordedFailed(c) ==
    c \in DOMAIN cluster_setup_results /\ ~cluster_setup_results[c]

RecordedOk(c) ==
    c \in DOMAIN cluster_setup_results /\ cluster_setup_results[c]

NoJoinIn(c) == \A i \in DOMAIN stageLog :
                  ~(stageLog[i].cluster = c /\ stageLog[i].stage = "join")

\* C2 as stated: whenever host preparation failed on the bootstrap node of a
\* cluster, no join runs on its workers and the finished run has recorded the
\* cluster False.
C2_Original ==
    \A c \in BootstrapFailed :
       /\ NoJoinIn(c)
       /\ RanAll => RecordedFailed(c)

\* C2 for the clusters that have an entry in kubernetes.clusters (the ones the
\* skip branch of install_all_vms records); no join runs in either case.
C2_BootstrapPrepFailure ==
    \A c \in BootstrapFailed :
       /\ NoJoinIn(c)
       /\ (RanAll /\ c \in DeclaredClusters) => RecordedFailed(c)

C2_Witness ==
    \E c \in BootstrapFailed :
       RanAll /\ RecordedFailed(c) /\ worker_vms(c) # <<>>

\* one control plane, two workers, in one declared cluster
OneMasterTwoWorkers ==
    /\ Len(config.vms) = 3
    /\ Len(master_vms("c1")) = 1 /\ Len(worker_vms("c1")) = 2
    /\ "c1" \in DeclaredClusters
    /\ cni_type("c1") \in {"flannel", "ovn-kubernetes"}

HasEntry(c, stage, node) ==
    \E i \in DOMAIN stageLog : /\ stageLog[i].cluster = c
                               /\ stageLog[i].stage = stage
                               /\ stageLog[i].node = node
                               /\ stageLog[i].ok

\* C3: with one worker unreachable and nothing else failing, the finished run
\* has initialized the control plane, joined the other worker, queried the
\* status and recorded the cluster successful; only that worker is failed.
C3_UnreachableWorkerDegrades ==
    \A w \in VmNames :
       ( /\ RanAll /\ OneMasterTwoWorkers
         /\ w \in WorkerNames("c1")
         /\ unreachable = {w} /\ prepFailed = {w} /\ faults = {} )
       => /\ HasEntry("c1", "init", master_vms("c1")[1].name)
          /\ \A o \in WorkerNames("c1") \ {w} : HasEntry("c1", "join", o)
          /\ \E i \in DOMAIN stageLog : stageLog[i].stage = "status"
          /\ "c1" \in DOMAIN cluster_setup_results
          /\ cluster_setup_results["c1"]
          /\ ~results[w]

JoinFaults == {f \in faults : f[1] \in {"join", "join_ip"}}

Attempted(c, stage, node) ==
    \E i \in DOMAIN stageLog : /\ stageLog[i].cluster = c
                               /\ stageLog[i].stage = stage
                               /\ stageLog[i].node = node

\* C4: when the join (or the address lookup before it) fails for one worker,
\* the other workers of the cluster are still joined, the status query runs
\* and the cluster is not recorded failed.
C4_JoinFailureNotFatal ==
    \A f \in JoinFaults :
       (Exited /\ faults = {f})
       => /\ \A o \in WorkerNames(f[2]) \ {f[3]} : Attempted(f[2], "join", o)
          /\ \E i \in DOMAIN stageLog :
                stageLog[i].cluster = f[2] /\ stageLog[i].stage = "status"
          /\ ~RecordedFailed(f[2])

ClusterScopedFaults ==
    {f \in faults : f[1] \in {"config", "no_master", "init", "cni"}}

\* setup_k8s_cluster has worked on cluster c
Processed(c) ==
    \/ c \in DOMAIN cluster_setup_results
    \/ \E f \in faults : f[2] = c
    \/ \E i \in DOMAIN stageLog : stageLog[i].cluster = c

\* C5: after a cluster-scoped failure of one cluster the finished run has
\* still set up every other cluster of the configuration.
C5_SiblingClustersContinue ==
    (Exited /\ ClusterScopedFaults # {})
    => \A c \in Range(clusters_vms) \cap DeclaredClusters : Processed(c)

AnyNodeFailed == \E n \in DOMAIN results : ~results[n]

AnyClusterFailed ==
    \/ \E c \in DOMAIN cluster_setup_results : ~cluster_setup_results[c]
    \/ setupRet = "False"

OvnWorkers ==
    {n \in VmNames :
        \E c \in Range(clusters_vms) \cap DeclaredClusters :
           n \in WorkerNames(c) /\ cni_type(c) = "ovn-kubernetes"}

OvnReady(w) == w \in DOMAIN ovnRet /\ ovnRet[w]

\* C7: in an OVN-Kubernetes cluster the run moves past a worker, and records
\* the cluster successful, only after the readiness check of that worker's
\* ovnkube-node pod reported all containers ready.
C7_JoinedOnlyWhenReady ==
    /\ \A w \in OvnWorkers \cap proceeded : OvnReady(w)
    /\ \A c \in DOMAIN cluster_setup_results :
          (cluster_setup_results[c] /\ cni_type(c) = "ovn-kubernetes")
          => \A w \in WorkerNames(c) : OvnReady(w)

\* the ovnkube wait recorded in csrLog has returned
WaitReturned == csrLog # <<>> /\ csrLog[1].worker \in DOMAIN ovnRet

Cycles == {csrLog[i].cycle : i \in DOMAIN csrLog}

CycleReady(k) ==
    \E i \in DOMAIN csrLog :
       csrLog[i].cycle = k /\ csrLog[i].ev = "wait_ready" /\ csrLog[i].ok

\* the cycles run one after the other, at most max_retries of them, and in a
\* cycle the order is: wait for the pod, approve, wait for readiness
CycleOrder ==
    \A i \in DOMAIN csrLog :
       LET e == csrLog[i] IN
       /\ e.cycle \in 1..DefaultMaxRetries
       /\ i = 1 => e.cycle = 1 /\ e.ev = "wait_pod"
       /\ i > 1 => csrLog[i - 1].cycle \in {e.cycle, e.cycle - 1}
       /\ e.ev = "wait_pod" <=> (i = 1 \/ csrLog[i - 1].cycle = e.cycle - 1)
       /\ e.ev = "wait_ready" =>
             /\ csrLog[i - 1].ev = "approve"
             /\ csrLog[i - 2].ev = "wait_pod" /\ csrLog[i - 2].ok
       /\ e.ev = "approve" =>
             \/ csrLog[i - 1].ev = "wait_pod" /\ csrLog[i - 1].ok
             \/ csrLog[i - 1].ev = "wait_ready" /\ ~csrLog[i - 1].ok

\* True at the first cycle whose readiness wait succeeds, False after exactly
\* max_retries unsuccessful cycles
WaitResult ==
    /\ \A i \in DOMAIN csrLog :
          (csrLog[i].ev = "wait_ready" /\ csrLog[i].ok)
          => i = Len(csrLog) /\ WaitReturned /\ ovnRet[csrLog[1].worker]
    /\ WaitReturned =>
          IF ovnRet[csrLog[1].worker]
          THEN csrLog[Len(csrLog)].ev = "wait_ready" /\ csrLog[Len(csrLog)].ok
          ELSE /\ Cycles = 1..DefaultMaxRetries
               /\ \A k \in Cycles : ~CycleReady(k)

PodMissedFirst == csrLog # <<>> /\ ~csrLog[1].ok

\* C8 as stated: cycle order and result as above, and whenever the pod is not
\* present in the first cycle a further cycle with a CSR approval is attempted.
C8_Original ==
    /\ CycleOrder /\ WaitResult
    /\ (WaitReturned /\ PodMissedFirst) =>
          \E i \in DOMAIN csrLog : csrLog[i].cycle > 1 /\ csrLog[i].ev = "approve"

\* C8 amended: cycle order and result as above; whenever the pod is not present
\* in the first cycle a further cycle is attempted, and a cycle approves CSRs
\* only after its own wait found the pod (none when the pod never appears).
C8_RetryCycles ==
    /\ CycleOrder /\ WaitResult
    /\ (WaitReturned /\ PodMissedFirst) => 2 \in Cycles
    /\ \A i \in DOMAIN csrLog :
          csrLog[i].ev = "approve" =>
             \E j \in 1..(i - 1) : /\ csrLog[j].cycle = csrLog[i].cycle
                                   /\ csrLog[j].ev = "wait_pod" /\ csrLog[j].ok

C8_Witness ==
    /\ WaitReturned /\ PodMissedFirst /\ ~ovnRet[csrLog[1].worker]
    /\ \E i \in DOMAIN csrLog : csrLog[i].ev = "approve"

Exhausted == {w \in DOMAIN ovnRet : ~ovnRet[w]}

\* C9: exhausting the wait-approve cycles for a worker does not end the cluster:
\* the run moves on to the next worker or the status query, and unless something
\* else fails the finished run has tried every worker, queried the status and
\* recorded the cluster successful.
C9_ExhaustionNotFatal ==
    \A w \in Exhausted :
       LET c == ClusterOfVm(w) IN
       /\ w \in proceeded
       /\ \A f \in faults : f[1] # "ovn_wait"
       /\ RecordedFailed(c) => \E f \in faults : f[2] = c
       /\ (Exited /\ \A f \in faults : f[2] # c)
          => /\ \A o \in WorkerNames(c) : Attempted(c, "join", o)
             /\ Attempted(c, "status", master_vms(c)[1].name)
             /\ RecordedOk(c)

C9_Witness ==
    \E w \in Exhausted :
       LET c == ClusterOfVm(w) IN
       /\ RecordedOk(c)
       /\ \E i, j \in DOMAIN stageLog :
             /\ i < j
             /\ stageLog[i].stage = "join" /\ stageLog[i].node = w
             /\ stageLog[j].stage = "join" /\ stageLog[j].cluster = c

\* C15: in parallel mode host preparation runs on every node and, when the
\* pool has drained, results holds exactly one entry per configured node.
C15_ParallelRunsEveryNode ==
    (Exited /\ parallel) => DOMAIN results = Range(vm_names)

\* the order of the steps of install_on_vm after the libvirt connection
StepOrder == << "get_vm_ip_with_retry", "wait_for_ssh", "_disable_swap",
               "_set_hostname", "_configure_kernel_modules", "_install_crio",
               "_install_openvswitch", "_add_kubernetes_repo",
               "_install_kubernetes", "_configure_firewall",
               "_verify_installation" >>

\* install_on_vm is not running (it has not started, or it has returned)
NotInstalling == pc # "install_on_vm" \/ step = 1

StepFailed == stepLog # <<>> /\ ~stepLog[Len(stepLog)].ok

\* C16: on one node the steps of install_on_vm run in the fixed order, each at
\* most once and only after every earlier step returned success; after the
\* first failing step install_on_vm returns, no later step runs, and the
\* node's result is failure (results[vm] False, exit status 1 with --vm).
\* In parallel mode install_on_vm is never entered.
C16_StepOrder ==
    /\ \A j \in DOMAIN stepLog :
          /\ stepLog[j].vm = stepLog[1].vm
          /\ stepLog[j].step = (<<"connect">> \o StepOrder)[j]
          /\ \A i \in 1..(j - 1) : stepLog[i].ok
    /\ StepFailed =>
          /\ NotInstalling
          /\ IF vm_arg = None
             THEN LET vm == stepLog[1].vm IN
                  vm \in DOMAIN results /\ ~results[vm]
             ELSE exitCode = 1
    /\ (stepLog # <<>> /\ ~StepFailed /\ NotInstalling) =>
          /\ Len(stepLog) = Len(StepOrder) + 1
          /\ IF vm_arg = None THEN results[stepLog[1].vm] ELSE exitCode = 0
    /\ parallel => stepLog = <<>>

\* a node whose fifth step failed: the four before it succeeded, none follows
C16_Witness ==
    /\ Len(stepLog) = 5 /\ StepFailed /\ NotInstalling
    /\ vm_arg = None /\ ~results[stepLog[1].vm]
    /\ Len(vm_names) > 1 /\ stepLog[1].vm = vm_names[2]

OvnClusters ==
    {c \in Range(clusters_vms) \cap DeclaredClusters :
        cni_type(c) = "ovn-kubernetes"}

BrexFaults == {f \in faults : f[1] \in {"master_ip", "brex_ip", "brex"}}

InitRan(c) ==
    \E i \in DOMAIN stageLog : stageLog[i].cluster = c /\ stageLog[i].stage = "init"

\* C17: in an OVN-Kubernetes cluster kubeadm init runs only after br-ex was set
\* up successfully on the bootstrap control-plane node and on every worker;
\* when the bridge setup or the address lookup fails on one of these nodes,
\* init never runs and the cluster is recorded failed.
C17_BrexBeforeInit ==
    \A c \in OvnClusters :
       LET L == LogOf(c)
           nodes == {master_vms(c)[i].name : i \in {1} \cap DOMAIN master_vms(c)}
                    \cup WorkerNames(c)
       IN /\ \A j \in DOMAIN L :
                L[j].stage = "init" =>
                   \A n \in nodes : DoneBefore(L, j, "brex", n)
          /\ \A f \in BrexFaults :
                f[2] = c => ~InitRan(c) /\ RecordedFailed(c)

\* the bridge setup failed on the second worker, after the master and the
\* first worker were done
C17_Witness ==
    \E c \in OvnClusters :
       /\ Len(worker_vms(c)) = 2
       /\ <<"brex", c, worker_vms(c)[2].name>> \in faults
       /\ HasEntry(c, "brex", master_vms(c)[1].name)
       /\ HasEntry(c, "brex", worker_vms(c)[1].name)
       /\ ~InitRan(c) /\ RecordedFailed(c)

----------------------------------------------------------------------------
(* Flannel, then Multus *)

FlannelFailed(c) ==
    \E i \in DOMAIN stageLog : /\ stageLog[i].cluster = c
                               /\ stageLog[i].stage = "flannel"
                               /\ ~stageLog[i].ok

\* C20: the Multus install starts only directly after the Flannel install of
\* the same cluster returned success; when the Flannel install fails, Multus
\* is never installed there, no worker is joined and the cluster is recorded
\* failed.
C20_MultusAfterFlannel ==
    /\ \A j \in DOMAIN stageLog :
          stageLog[j].stage = "multus" =>
             /\ j > 1
             /\ stageLog[j - 1].stage = "flannel"
             /\ stageLog[j - 1].cluster = stageLog[j].cluster
             /\ stageLog[j - 1].node = stageLog[j].node
             /\ stageLog[j - 1].ok
    /\ pc = "multus" =>
          /\ stageLog # <<>>
          /\ stageLog[Len(stageLog)].stage = "flannel"
          /\ stageLog[Len(stageLog)].cluster = cur_cluster
          /\ stageLog[Len(stageLog)].ok
    /\ \A c \in ClusterNames :
          FlannelFailed(c) =>
             /\ \A i \in DOMAIN stageLog :
                   stageLog[i].cluster = c =>
                      stageLog[i].stage \notin {"multus", "join", "status"}
             /\ \A w \in WorkerNames(c) :
                   \A i \in DOMAIN joinCmdLog : joinCmdLog[i].worker # w
             /\ RecordedFailed(c)
             /\ <<"cni", c, master_vms(c)[1].name>> \in faults

\* Flannel failed on a cluster that has a worker, and the run has ended
C20_Witness ==
    \E c \in ClusterNames :
       /\ FlannelFailed(c) /\ worker_vms(c) # <<>> /\ Exited

----------------------------------------------------------------------------
(* Properties of the address pollers (SpecPoll) *)

Count(seq, x) == Cardinality({i \in DOMAIN seq : seq[i] = x})

\* the first attempt within max_attempts whose probe returns an address, or 0
FirstOk(probes, max_attempts) ==
    LET S == {i \in 1..max_attempts : probes[i] \in Addresses} IN
    IF S = {} THEN 0 ELSE CHOOSE i \in S : \A j \in S : i <= j

\* C10: the poller probes at most max_attempts times; it returns the address
\* of attempt N exactly when the first N-1 probes were empty and the N-th was
\* not; it returns None after exactly max_attempts empty probes; it sleeps
\* between two attempts and never after the last one.
C10_Poller ==
    pollOut.done =>
       LET t == pollOut.trace
           n == Count(t, "probe")
           N == FirstOk(pollIn.probes, pollIn.max_attempts)
       IN /\ n <= pollIn.max_attempts
          /\ IF N # 0 THEN pollOut.ret = pollIn.probes[N] /\ n = N
             ELSE pollOut.ret = None /\ n = pollIn.max_attempts
          /\ \A i \in DOMAIN t :
                /\ t[i] = "sleep" =>
                      i > 1 /\ i < Len(t) /\ t[i - 1] = "probe"
                      /\ t[i + 1] = "probe"
                /\ (t[i] = "probe" /\ i < Len(t)) => t[i + 1] = "sleep"

C10_Witness ==
    /\ pollOut.done /\ pollOut.ret # None
    /\ Count(pollOut.trace, "probe") = MaxAttempts
    /\ Count(pollOut.trace, "sleep") = MaxAttempts - 1

\* the first attempt within max_attempts at which libvirt raised an error, or 0
FirstFatal(probes, max_attempts) ==
    LET S == {i \in 1..max_attempts : probes[i] = LibvirtError} IN
    IF S = {} THEN 0 ELSE CHOOSE i \in S : \A j \in S : i <= j

\* C11: when a probe reports a fatal error (the libvirt lookup raises) before
\* any probe succeeded, the poller returns on that attempt and probes no more.
C11_FatalReturnsImmediately ==
    pollOut.done =>
       LET F == FirstFatal(pollIn.probes, pollIn.max_attempts)
           N == FirstOk(pollIn.probes, pollIn.max_attempts)
       IN (F # 0 /\ (N = 0 \/ F < N)) => Count(pollOut.trace, "probe") = F

----------------------------------------------------------------------------
(* Properties of the blocking waits (SpecLive) *)

\* the run or the wait has reached its outcome
Terminal == pc = "exit" \/ wait.done

\* C12: every blocking wait ends after a bounded number of iterations or at
\* its timeout, and so every run eventually reaches a terminal outcome.
C12_EveryWaitTerminates == <>Terminal

\* a timed wait ran into its timeout after several failed probes
C12_Witness ==
    /\ wait.done /\ wait.loop = "wait_for_ssh" /\ wait.ret = "False"
    /\ wait.limit = MaxTimeout /\ wait.clock >= MaxTimeout

----------------------------------------------------------------------------
(* Properties of teardown (SpecTeardown) *)

TornDown(k) == td.mode # None /\ td.phase = "done" /\ Len(td.runs) >= k

\* C13: a teardown invoked right after a teardown that completed (it reported
\* success and none of its removals failed) removes nothing and reports
\* success.
C13_TeardownIdempotent ==
    (TornDown(2) /\ td.runs[1].ret /\ ~td.runs[1].failed)
    => td.runs[2].acts = {} /\ td.runs[2].ret /\ ~td.runs[2].failed

\* the first teardown had VMs, networks and bridges (or clusters) to remove
C13_Witness ==
    /\ TornDown(2) /\ td.runs[1].ret /\ ~td.runs[1].failed
    /\ \/ {<<"undefine", "dpu1">>, <<"unlink_iso", "host1">>,
            <<"net_destroy", "mgmt">>, <<"del-br", "br-data">>}
             \subseteq td.runs[1].acts
       \/ {<<"delete_cluster", "k1">>, <<"unlink_kubeconfig", "k2">>}
             \subseteq td.runs[1].acts

\* C14: after cleanup_vms and cleanup_networks finished without a failing
\* removal, no VM definition, disk or ISO and no network or OVS bridge of the
\* configuration remains, whatever state bring-up had left.
C14_TeardownComplete ==
    (TornDown(1) /\ td.mode = "vm" /\ ~td.runs[1].failed)
    => /\ \A n \in TdVmNames : td.vms[n] = Gone
       /\ \A n \in TdNetNames : ~td.nets[n].defined /\ ~td.nets[n].active
       /\ td.bridges \cap TdBridges = {}

----------------------------------------------------------------------------
(* Properties of install_ovn_kubernetes (SpecOvn) *)

\* the order install_ovn_kubernetes works in
OvnPlan == manifests \o <<LabelStep>> \o global_zone_manifests

Crds ==
    {"k8s.ovn.org_egressfirewalls.yaml", "k8s.ovn.org_egressips.yaml",
     "k8s.ovn.org_egressqoses.yaml", "k8s.ovn.org_egressservices.yaml",
     "k8s.ovn.org_adminpolicybasedexternalroutes.yaml",
     "k8s.ovn.org_networkqoses.yaml", "k8s.ovn.org_userdefinednetworks.yaml",
     "k8s.ovn.org_clusteruserdefinednetworks.yaml",
     "k8s.ovn.org_routeadvertisements.yaml",
     "k8s.ovn.org_clusternetworkconnects.yaml",
     "https://raw.githubusercontent.com/kubernetes-sigs/network-policy-api/v0.1.5/config/crd/experimental/policy.networking.k8s.io_adminnetworkpolicies.yaml",
     "https://raw.githubusercontent.com/kubernetes-sigs/network-policy-api/v0.1.5/config/crd/experimental/policy.networking.k8s.io_baselineadminnetworkpolicies.yaml"}

NamespaceAndRbac ==
    {"ovn-setup.yaml", "rbac-ovnkube-identity.yaml",
     "rbac-ovnkube-cluster-manager.yaml", "rbac-ovnkube-master.yaml",
     "rbac-ovnkube-node.yaml", "rbac-ovnkube-db.yaml"}

Daemons == {"ovs-node.yaml", "ovnkube-db.yaml", "ovnkube-identity.yaml",
            "ovnkube-master.yaml", "ovnkube-node.yaml"}

ManifestRank(item) ==
    CASE item \in Crds -> 1
      [] item \in NamespaceAndRbac -> 2
      [] item = LabelStep -> 3
      [] item \in Daemons -> 4

AppliedBefore(j, item) ==
    \E i \in 1..(j - 1) : ovn.log[i].item = item /\ ovn.log[i].ok

\* C18: the manifests are applied in the order CRDs, namespace and RBAC, node
\* labelling, daemons (ovnkube-db before ovnkube-master before ovnkube-node);
\* each only after every earlier one succeeded; after the first failure
\* nothing more is applied and install_ovn_kubernetes returns False.
C18_ManifestOrder ==
    ovn.phase # None =>
      LET L == ovn.log IN
      /\ \A j \in DOMAIN L :
            /\ \A i \in 1..(j - 1) :
                  /\ L[i].ok
                  /\ L[i].item # L[j].item
                  /\ ManifestRank(L[i].item) <= ManifestRank(L[j].item)
            /\ L[j].item \in Crds \cup NamespaceAndRbac \cup Daemons \cup {LabelStep}
            /\ L[j].item \in NamespaceAndRbac =>
                  \A c \in Crds : AppliedBefore(j, c)
            /\ L[j].item = LabelStep =>
                  \A c \in NamespaceAndRbac : AppliedBefore(j, c)
            /\ L[j].item \in Daemons => AppliedBefore(j, LabelStep)
            /\ L[j].item = "ovnkube-master.yaml" =>
                  AppliedBefore(j, "ovnkube-db.yaml")
            /\ L[j].item = "ovnkube-node.yaml" =>
                  AppliedBefore(j, "ovnkube-master.yaml")
            /\ ~L[j].ok => ovn.phase = "done" /\ ~ovn.ret
      /\ (ovn.phase = "done" /\ ovn.ret) =>
            /\ \A c \in Crds \cup NamespaceAndRbac \cup Daemons \cup {LabelStep} :
                  AppliedBefore(Len(L) + 1, c)
            /\ L[Len(L)].item = "ovnkube-node.yaml"

\* the apply of ovnkube-master.yaml failed after everything before it went well
C18_Witness ==
    /\ ovn.phase = "done" /\ ~ovn.ret
    /\ Len(ovn.log) = Len(manifests) + 5
    /\ ovn.log[Len(ovn.log)].item = "ovnkube-master.yaml"
    /\ ovn.log[Len(ovn.log)].ev = "apply"

----------------------------------------------------------------------------
(* Properties of the CNI stage of both backends (SpecCni) *)

CniEntries == {i \in DOMAIN stageLog : stageLog[i].stage \in CniStages}

\* the stage that follows a CNI install that returned success
AfterCniStages == {"multus", "join", "status"}

\* a CNI install function of the VM backend returns in this step
CniReturns ==
    /\ pc \in {"cni", "multus"}
    /\ Len(stageLog') = Len(stageLog) + 1
    /\ stageLog'[Len(stageLog')].stage \in CniStages

C19_KindWitness ==
    /\ pc = "kind_deploy" /\ ovn.phase = "display_cluster_info"
    /\ ovn.polled = FALSE /\ ovn.kret = TRUE

----------------------------------------------------------------------------
(* Properties of the derived names (SpecNames) *)

Derived == pc = "names" /\ dep.out # <<>>

C25_DistinctPairsDistinctNames ==
    (Derived /\ dep.a # dep.b) =>
      /\ dep.out[1].bridge # dep.out[2].bridge
      /\ dep.out[1].net # dep.out[2].net

----------------------------------------------------------------------------
(* Properties of VMDeployer.deploy (SpecDeploy) *)

Deploying == pc = "deploy" /\ dep.mode = "vm"

\* C21: when the creation of a declared network, of a pairing network or of
\* a VM fails, deploy returns False and run_full_setup does not go on to
\* install_software; no VM is created after a failed network creation.
C21_SubstrateFailureFatal ==
    Deploying =>
      /\ (dep.phase = "returned" /\ \E i \in DOMAIN dep.log : ~dep.log[i].ok)
            => (~dep.ret /\ dep.next # "install_software")
      /\ \A i, j \in DOMAIN dep.log :
            (i < j /\ dep.log[i].op = "create_network" /\ ~dep.log[i].ok)
               => dep.log[j].op # "create_vm"

\* the entry of config['vms'] named n
VmNamed(n) == dep.vms[CHOOSE i \in DOMAIN dep.vms : dep.vms[i].name = n]

NetCreated(n) == \E i \in DOMAIN dep.nets : dep.nets[i].name = n

\* C22: every created VM has an interface on every declared network whose
\* attach_to is 'any' or the VM's type, and for every host/DPU pair whose
\* pairing network was created both VMs of the pair have an interface on it.
C22_InterfacesComplete ==
    Deploying =>
      \A k \in DOMAIN dep.domains :
         LET d == dep.domains[k]
             vm == VmNamed(d.name)
         IN /\ \A i \in DOMAIN dep.networks :
                  dep.networks[i].attach_to \in {"any", vm.type}
                     => dep.networks[i].name \in Range(d.interfaces)
            /\ \A pr \in Range(get_host_dpu_pairs(dep.vms)) :
                  (d.name \in {pr[1], pr[2]}
                   /\ NetCreated(get_host_to_dpu_network_name(pr[1], pr[2])))
                     => get_host_to_dpu_network_name(pr[1], pr[2])
                           \in Range(d.interfaces)

\* C26: no pairing network that deploy creates carries the name or the bridge
\* of a declared network, and no two networks on the host share a name or a
\* bridge.
C26_NoCollisionWithDeclared ==
    Deploying =>
      /\ \A i, j \in DOMAIN dep.nets :
            i # j => /\ dep.nets[i].name # dep.nets[j].name
                     /\ dep.nets[i].bridge # dep.nets[j].bridge
      /\ \A k \in DOMAIN dep.log :
            (dep.log[k].op = "create_network" /\ dep.log[k].derived) =>
               \A i \in DOMAIN dep.networks :
                  /\ dep.log[k].name # dep.networks[i].name
                  /\ dep.log[k].bridge # dep.networks[i].bridge_name

\* the VMs of type 'host', by name
HostVmNames ==
    {dep.vms[i].name : i \in {j \in DOMAIN dep.vms : dep.vms[j].type = "host"}}

\* C36: every network named by an interface of a domain that create_vm defined
\* was defined by create_networks in this deploy; a pairing-link interface is
\* attached only for a pair whose network create_host_to_dpu_networks created,
\* and never to a DPU whose 'host' names no VM of type 'host'.
C36_InterfacesOnDefinedNetworks ==
    Deploying =>
      \A k \in DOMAIN dep.domains :
         LET d == dep.domains[k]
             vm == VmNamed(d.name)
             declared == {dep.networks[i].name : i \in DOMAIN dep.networks}
         IN /\ \A m \in DOMAIN d.interfaces :
                  /\ NetCreated(d.interfaces[m])
                  /\ d.interfaces[m] \notin declared =>
                        \E pr \in Range(get_host_dpu_pairs(dep.vms)) :
                            /\ d.name \in {pr[1], pr[2]}
                            /\ d.interfaces[m]
                                  = get_host_to_dpu_network_name(pr[1], pr[2])
            /\ (vm.type = "dpu" /\ vm.host # None
                                /\ vm.host \notin HostVmNames) =>
                  get_host_to_dpu_network_name(vm.host, vm.name)
                      \notin Range(d.interfaces)

----------------------------------------------------------------------------
(* Properties of KindDeployer.deploy (SpecKindDeploy) *)

KindDeploying == pc = "kind_clusters" /\ dep.mode = "kind"

\* the selectors that spell 'ovn-kubernetes' or 'ovn' in some letter case
OvnSelector(cni) == cni \in {"ovn", "OVN", "ovn-kubernetes", "OVN-Kubernetes"}

\* how many times `op` was run for the cluster
KindCount(op, cluster_name) ==
    Cardinality({k \in DOMAIN dep.log :
                    dep.log[k].op = op /\ dep.log[k].cluster = cluster_name})

DisablesDefaults(config_yaml) ==
    /\ "  disableDefaultCNI: true" \in Range(config_yaml)
    /\ "  kubeProxyMode: none" \in Range(config_yaml)

KeepsDefaults(config_yaml) ==
    /\ "  disableDefaultCNI: true" \notin Range(config_yaml)
    /\ "  kubeProxyMode: none" \notin Range(config_yaml)

\* the selector-dependent part: the manifest handed to `kind create cluster`
\* disables the default CNI and kube-proxy exactly when the cluster's selector
\* is 'ovn-kubernetes' or 'ovn' in any letter case; a created cluster gets the
\* node-ready wait exactly when its selector is not OVN-Kubernetes, and the
\* OVN-Kubernetes install exactly when it is; `kind create cluster` never runs
\* twice for a cluster and runs for the clusters in declaration order.
KindPerSelector ==
    KindDeploying =>
        /\ \A k \in DOMAIN dep.log :
              dep.log[k].op = "kind create cluster" =>
                  \E j \in DOMAIN dep.clusters :
                      /\ dep.clusters[j].name = dep.log[k].cluster
                      /\ IF OvnSelector(dep.clusters[j].cni)
                         THEN DisablesDefaults(dep.log[k].config_yaml)
                         ELSE KeepsDefaults(dep.log[k].config_yaml)
        /\ \A j \in DOMAIN dep.clusters :
              LET c == dep.clusters[j]
                  exported ==
                      \E k \in DOMAIN dep.log :
                          /\ dep.log[k].op = "export_kubeconfig"
                          /\ dep.log[k].cluster = c.name /\ dep.log[k].ok
                  passed == j < dep.i \/ (dep.phase = "returned" /\ dep.ret)
              IN  /\ KindCount("kind create cluster", c.name) <= 1
                  /\ j < dep.i => KindCount("kind create cluster", c.name) = 1
                  /\ j > dep.i => KindCount("kind create cluster", c.name) = 0
                  /\ KindCount("wait_for_node_ready", c.name)
                         = IF exported /\ ~OvnSelector(c.cni) THEN 1 ELSE 0
                  /\ passed =>
                         KindCount("deploy_ovn_kubernetes", c.name)
                             = IF OvnSelector(c.cni) THEN 1 ELSE 0
                  /\ ~OvnSelector(c.cni) =>
                         KindCount("deploy_ovn_kubernetes", c.name) = 0

\* C23: for every cluster the Kind manifest disables the default CNI and
\* kube-proxy if and only if the selector is OVN-Kubernetes (case-insensitive),
\* the node-ready wait is skipped and the OVN-Kubernetes install is run for
\* exactly those clusters, and once deploy has started creating clusters and
\* has returned, `kind create cluster` has run exactly once for every declared
\* cluster.
C23_KindContract ==
    /\ KindPerSelector
    /\ KindDeploying /\ dep.phase = "returned" /\ dep.log # << >> =>
           \A j \in DOMAIN dep.clusters :
               KindCount("kind create cluster", dep.clusters[j].name) = 1

----------------------------------------------------------------------------
(* Properties of install_all_vms (Spec) *)

Sequential == vm_arg = None /\ ~parallel

\* C28: in sequential mode install_on_vm is started on every configured VM,
\* in declaration order, whatever the earlier VMs returned or raised: each
\* result is recorded for the VM at the loop position, after the first step
\* of install_on_vm ran on that VM, the loop then moves to the next VM, and
\* when the loop is over a result is recorded for every configured VM.
C28_SiblingsNotAborted ==
    /\ [](Sequential /\ pc = "all_installed" =>
             /\ DOMAIN results = Range(vm_names)
             /\ vmIdx = Len(vm_names) + 1)
    /\ [][Sequential /\ pc = "install_on_vm" =>
             /\ vmIdx \in DOMAIN vm_names
             /\ DOMAIN results = {vm_names[j] : j \in 1..(vmIdx - 1)}
             /\ (results' # results \/ vmIdx' # vmIdx) =>
                    /\ vmIdx' = vmIdx + 1
                    /\ DOMAIN results' = DOMAIN results \cup {vm_names[vmIdx]}
                    /\ \A n \in DOMAIN results : results'[n] = results[n]
                    /\ stepLog' # <<>>
                    /\ stepLog'[1].vm = vm_names[vmIdx]
                    /\ stepLog'[1].step = "connect"
                    /\ pc' = IF vmIdx < Len(vm_names) THEN "install_on_vm"
                             ELSE "all_installed"]_vars

\* the first VM failed, the second succeeded, and the last VM went through
\* every step
C28_Witness ==
    /\ Sequential /\ pc = "all_installed" /\ Len(vm_names) = 3
    /\ ~results[vm_names[1]] /\ results[vm_names[2]] /\ results[vm_names[3]]
    /\ Len(stepLog) = Len(InstallSteps) /\ stepLog[1].vm = vm_names[3]

----------------------------------------------------------------------------
(* Properties of the status query (Spec) *)

\* C29: the status query cannot fail the run: whatever `kubectl get nodes`
\* returns (ssh_command returns False for a failure and for a timeout), the
\* step records the cluster True, adds no failure, does not make
\* setup_k8s_cluster return False, and goes on with the next cluster (or
\* returns True after the last one); a cluster whose status was queried stays
\* recorded True.
C29_StatusCannotFail ==
    /\ [](\A k \in DOMAIN stageLog :
             stageLog[k].stage = "status" => RecordedOk(stageLog[k].cluster))
    /\ [][pc = "status" =>
             LET c == cur_cluster IN
             /\ c \in DOMAIN cluster_setup_results'
             /\ cluster_setup_results'[c]
             /\ faults' = faults
             /\ stageLog'[Len(stageLog')].stage = "status"
             /\ IF clusterIdx < Len(clusters_vms)
                THEN pc' = "cluster" /\ clusterIdx' = clusterIdx + 1
                     /\ setupRet' = setupRet
                ELSE pc' = "print_summary" /\ setupRet' = "True"]_vars

\* the status query of one cluster failed and the next cluster's stages ran
C29_Witness ==
    \E k \in DOMAIN stageLog :
        /\ stageLog[k].stage = "status" /\ ~stageLog[k].ok
        /\ RecordedOk(stageLog[k].cluster)
        /\ \E m \in DOMAIN stageLog :
               /\ m > k /\ stageLog[m].cluster # stageLog[k].cluster
               /\ stageLog[m].stage = "init"

----------------------------------------------------------------------------
(* Properties of the control-plane initialization (Spec) *)

\* the masters of cluster c, by position in config['vms']
MasterPositions(c) ==
    {i \in DOMAIN config.vms : /\ config.vms[i].k8s_role = "master"
                               /\ config.vms[i].k8s_cluster = c}

InitEntries(c) ==
    {k \in DOMAIN stageLog : stageLog[k].cluster = c /\ stageLog[k].stage = "init"}

\* C30: in a run the control-plane initialization is executed at most once for
\* a cluster, and only on the master of that cluster that is declared first;
\* no stage is ever executed for a cluster without a master, and the step that
\* finds a cluster without a master records it False and ends the cluster
\* setup without executing anything.
C30_InitOnceOnFirstMaster ==
    /\ [](\A k \in DOMAIN stageLog :
             LET c == stageLog[k].cluster IN
             /\ MasterPositions(c) # {}
             /\ stageLog[k].stage = "init" =>
                    /\ Cardinality(InitEntries(c)) = 1
                    /\ \E i \in MasterPositions(c) :
                           /\ config.vms[i].name = stageLog[k].node
                           /\ \A j \in MasterPositions(c) : i <= j)
    /\ [][pc = "cluster" /\ MasterPositions(cur_cluster) = {} =>
             LET c == cur_cluster IN
             /\ c \in DOMAIN cluster_setup_results'
             /\ ~cluster_setup_results'[c]
             /\ pc' = "print_summary" /\ setupRet' = "False"
             /\ stageLog' = stageLog /\ joinCmdLog' = joinCmdLog
             /\ csrLog' = csrLog]_vars

\* a cluster with two masters was initialized on the first and finished
C30_Witness ==
    \E c \in DOMAIN cluster_setup_results :
        /\ cluster_setup_results[c]
        /\ Cardinality(MasterPositions(c)) = 2
        /\ Cardinality(InitEntries(c)) = 1
        /\ \E k \in InitEntries(c) : stageLog[k].ok

\* a declared cluster without a master was recorded False with nothing executed
C30_NoMasterWitness ==
    /\ Exited /\ <<"no_master", "c1", None>> \in faults
    /\ RecordedFailed("c1") /\ stageLog = << >>

----------------------------------------------------------------------------
(* Properties of the worker join (Spec) *)

JoinEntries == {k \in DOMAIN stageLog : stageLog[k].stage = "join"}

\* C31: the join step is executed at most once for a worker, with the join
\* command that the successful init of the worker's own cluster produced, after
\* that init returned success, and never with the command of another cluster.
C31_JoinCommandUse ==
    /\ \A i, j \in DOMAIN joinCmdLog :
           joinCmdLog[i].worker = joinCmdLog[j].worker => i = j
    /\ Cardinality(JoinEntries) = Len(joinCmdLog)
    /\ \A i \in DOMAIN joinCmdLog :
           LET w == joinCmdLog[i].worker
               c == ClusterOfVm(w)
           IN  /\ w \in WorkerNames(c)
               /\ joinCmdLog[i].cmd = JoinCommandOf[c]
               /\ \A other \in ClusterNames \ {c} :
                      joinCmdLog[i].cmd # JoinCommandOf[other]
    /\ \A k \in JoinEntries :
           /\ stageLog[k].node \in WorkerNames(stageLog[k].cluster)
           /\ \E m \in 1..(k - 1) :
                  /\ stageLog[m].stage = "init" /\ stageLog[m].ok
                  /\ stageLog[m].cluster = stageLog[k].cluster
           /\ \A m \in JoinEntries : stageLog[m].node = stageLog[k].node => m = k

\* the workers of two clusters joined, each with its own cluster's command
C31_Witness ==
    /\ Len(joinCmdLog) >= 2
    /\ \E i, j \in DOMAIN joinCmdLog :
           /\ joinCmdLog[i].cmd = JoinCommandOf["c1"]
           /\ joinCmdLog[j].cmd = JoinCommandOf["c2"]
    /\ \A k \in JoinEntries : stageLog[k].ok

----------------------------------------------------------------------------
(* Properties of the recorded cluster results (Spec) *)

\* C33: whenever setup_k8s_cluster has returned False, the cluster whose stage
\* failed is recorded False in cluster_setup_results, and the summary of that
\* run does not say that all clusters have been set up successfully.
C33_FailedClusterRecorded ==
    setupRet = "False" =>
        /\ RecordedFailed(cur_cluster)
        /\ Exited =>
               "All Kubernetes clusters have been set up successfully!"
                   \notin print_summary(results, cluster_setup_results)

----------------------------------------------------------------------------
(* Properties of the gate between host preparation and cluster setup (Spec) *)

\* every configured VM has a recorded successful installation result
AllPrepared ==
    \A n \in Range(vm_names) : n \in DOMAIN results /\ results[n]

InstallPcs == {"install_all_vms", "install_on_vm", "all_installed"}

\* cluster setup and its remote commands only after every VM was prepared
GateInv ==
    (stageLog # << >> \/ joinCmdLog # << >> \/ pc = "setup_k8s_cluster")
        => AllPrepared

\* install_all_vms leaves its installation part: cluster setup starts with
\* every VM prepared, or nothing was executed for a cluster and every declared
\* cluster is recorded False
GateStep ==
    (vm_arg = None /\ pc \in InstallPcs /\ pc' \notin InstallPcs) =>
        IF \A n \in Range(vm_names) : n \in DOMAIN results' /\ results'[n]
        THEN pc' = "setup_k8s_cluster"
        ELSE /\ stageLog' = << >> /\ joinCmdLog' = << >>
             /\ pc' # "setup_k8s_cluster"
             /\ \A c \in DeclaredClusters :
                    /\ c \in DOMAIN cluster_setup_results'
                    /\ ~cluster_setup_results'[c]

\* the gate of the sequential mode
SetupGatedSequential == []GateInv /\ [][~parallel => GateStep]_vars

\* C34: setup_k8s_cluster is started only when every configured VM has a
\* recorded successful installation result; otherwise install_all_vms executes
\* no bridge setup, init, CNI install or join, and records every declared
\* cluster False.
C34_SetupGated == []GateInv /\ [][GateStep]_vars

----------------------------------------------------------------------------
(* Properties of a repeated deploy (SpecRedeploy) *)

DefinedNets == {dep.nets[k].name : k \in DOMAIN dep.nets}
DefinedDomains == {dep.domains[k].name : k \in DOMAIN dep.domains}

\* the host carried out every command of this run
AllAnswered == \A k \in DOMAIN dep.log : dep.log[k].answer = "ok"

\* C32: with cleanup the teardown is over before the first network is created
\* and, when no removal failed, has left none of the configuration's VMs,
\* networks and bridges; a deploy repeated right after another, the host
\* carrying out every command of both, returns what the first returned and
\* ends with the same defined networks and VMs; without cleanup no teardown action is performed.
C32_RedeployIdempotent ==
    Deploying =>
        /\ ~dep.cleanup => dep.td.acts = {}
        /\ dep.phase = "cleanup" => dep.log = << >> /\ dep.td.acts = {}
        /\ (dep.cleanup /\ ~dep.td.failed /\ dep.phase = "networks"
                        /\ dep.i = 1) =>
               dep.nets = << >> /\ dep.bridges = {} /\ dep.domains = << >>
        /\ (dep.cleanup /\ dep.run > 1 /\ dep.prev.answered
                        /\ ~dep.td.failed /\ dep.phase = "returned"
                        /\ dep.log # << >> /\ AllAnswered) =>
               /\ dep.ret = dep.prev.ret
               /\ DefinedNets = dep.prev.nets
               /\ DefinedDomains = dep.prev.domains

\* the second deploy removed what the first had created and created it again
C32_Witness ==
    /\ Deploying /\ dep.cleanup /\ dep.run = 2 /\ dep.phase = "returned"
    /\ dep.ret /\ dep.prev.ret /\ dep.prev.answered /\ AllAnswered
    /\ ~dep.td.failed
    /\ \E n \in DefinedDomains : <<"undefine", n>> \in dep.td.acts
    /\ \E n \in DefinedNets : <<"net_undefine", n>> \in dep.td.acts
    /\ \E x \in dep.bridges : <<"del-br", x>> \in dep.td.acts
    /\ Cardinality(DefinedNets) >= 3
    /\ DefinedNets = dep.prev.nets /\ DefinedDomains = dep.prev.domains

----------------------------------------------------------------------------
(* Properties of the backend selection (SpecDetect) *)

Detected ==
    pc = "detect" /\ dep.deploy # None /\ dep.cfg # None /\ dep.cleanup # None

\* what holds: where dpu-sim.py picks a backend, cfg_utils picks the same;
\* a document without a 'vms' key that deploys as Kind is torn down as Kind
DetectAgreement ==
    Detected =>
        /\ dep.deploy # "exit" => dep.cfg = dep.deploy
        /\ (dep.deploy = "kind" /\ dep.doc.vms = "absent") =>
               dep.cleanup = "KindCleanup"

\* C35: for every configuration document cleanup.py builds the Kind handler
\* exactly when the deployment side selects 'kind', in dpu-sim.py and in
\* cfg_utils.py alike.
C35_SameBackend ==
    Detected =>
        /\ dep.cleanup = "KindCleanup" <=> dep.deploy = "kind"
        /\ dep.cleanup = "KindCleanup" <=> dep.cfg = "kind"

----------------------------------------------------------------------------
(* Properties of the teardown prompt and of the Kind teardown (SpecConfirm) *)

\* what a teardown can remove
HostOf(t) == <<t.vms, t.nets, t.bridges, t.clusters, t.kubeconfigs, t.kdir>>

\* this step ends a run of VMCleanup.run or KindCleanup.run
RunEnds == pc = "teardown" /\ Len(td'.runs) = Len(td.runs) + 1

LastRun(t) == t.runs[Len(t.runs)]

\* an answer that is neither "yes" nor "y", whatever its case
Declined(response) == lower(response) \notin {"yes", "y"}

\* C37: with an answer other than "yes" or "y" in any case no step of the
\* teardown changes a VM, a network, a bridge, a cluster or a kubeconfig file,
\* and a run that reached the prompt returns False without any action.
C37_DeclinedUnchanged ==
    [][(pc = "teardown" /\ Declined(td.answer)) =>
          /\ HostOf(td') = HostOf(td)
          /\ (RunEnds /\ td'.asked) => LastRun(td') = Cancelled]_vars

\* a VM teardown answered "yeah" has returned False and the VMs still run
C37_Witness ==
    /\ pc = "teardown" /\ td.mode = "vm" /\ td.phase = "done"
    /\ td.answer = "yeah" /\ td.asked
    /\ td.runs # << >> /\ LastRun(td) = Cancelled
    /\ \A n \in TdVmNames : td.vms[n].active
    /\ td.bridges # {}

\* the same for a Kind teardown answered with an empty line
C37_KindWitness ==
    /\ pc = "teardown" /\ td.mode = "kind" /\ td.phase = "done"
    /\ td.answer = "" /\ td.asked
    /\ td.runs # << >> /\ LastRun(td) = Cancelled
    /\ "k1" \in td.clusters /\ "k1" \in td.kubeconfigs

\* the clusters of the configuration and those a run tried to delete
ConfiguredNames == get_cluster_names(config.clusters)
DeletionsTried(run) == {c \in HostClusters : <<"delete_cluster", c>> \in run.acts}

\* what C38 says of the run that ends with this step
BestEffort ==
    /\ DeletionsTried(LastRun(td')) = ConfiguredNames \cap td.clusters
    /\ td'.kubeconfigs = td.kubeconfigs \ ConfiguredNames
    /\ td'.clusters \ ConfiguredNames = td.clusters \ ConfiguredNames
    /\ LastRun(td').ret <=>
          (ConfiguredNames \cap td.clusters) \cap td'.clusters = {}

\* C38 as stated: every run of KindCleanup.run deletes best-effort and
\* returns True exactly when every attempted deletion succeeded.
C38_BestEffortAlways ==
    [][(RunEnds /\ td.mode = "kind") => BestEffort]_vars

\* C38: a run of KindCleanup.run that found Kind installed and a cluster name
\* in the configuration, and whose prompt, if it came, was confirmed, tries
\* to delete every configured cluster that exists and no other, removes the
\* kubeconfig files of the configured clusters even when a deletion failed,
\* and returns True exactly when no attempted cluster is left.
C38_BestEffort ==
    [][(/\ RunEnds /\ td.mode = "kind"
        /\ td.kind_installed /\ ConfiguredNames # {}
        /\ td'.asked => ~Declined(td.answer)) => BestEffort]_vars

\* one deletion failed: the other cluster is gone, the kubeconfig files too,
\* the cluster outside the configuration is still there
C38_Witness ==
    /\ pc = "teardown" /\ td.mode = "kind" /\ td.phase = "done"
    /\ td.runs # << >> /\ ~LastRun(td).ret /\ LastRun(td).failed
    /\ DeletionsTried(LastRun(td)) = {"k1", "k2"}
    /\ <<"unlink_kubeconfig", "k2">> \in LastRun(td).acts
    /\ td.clusters = {"k1", "k9"}
    /\ td.kubeconfigs \cap {"k1", "k2"} = {}

============================================================================
